---- MODULE Spec2Model ----
(***************************************************************************)
(* CAM analyzer: the G-code engine (src/backend.py, GCodeAnalyzer) and the *)
(* host that drives it (src/frontend/app_ui.py, CAMApp).                   *)
(*                                                                         *)
(* Text is a sequence of one-character strings.  Numbers are fixed point:  *)
(* the integer v stands for v / NumScale (mm, mm/min, degrees), so that    *)
(* the code's near-zero threshold 0.000001 is one unit.  A square root is  *)
(* rounded up to the next unit, which makes "> threshold" and "<= 2|R|"    *)
(* agree with the same comparison on the exact real value.  The code uses  *)
(* binary floating point; the programs drawn below use coordinates whose   *)
(* float differences are exact and tool vectors that lie on an axis, so    *)
(* that exact arithmetic and the code's floats classify each line alike.   *)
(* Coordinates stay within 0.046 mm of each other so that squared          *)
(* differences fit an integer.                                             *)
(***************************************************************************)
EXTENDS Integers, Sequences, FiniteSets, TLC

\* ------------------------------------------------------------------ bounds
\* Longest program (in source-line units) drawn by Init.
MaxLines == 3

\* ------------------------------------------------------- program constants
\* Units per 1.0: the threshold 0.000001 of backend.py is 1 / NumScale.
NumScale == 1000000
\* actual_dist > 0.000001
StationaryEps == 1
\* i % 2000 == 0: lines between two progress callbacks of the parser
ProgressInterval == 2000
\* i % 10000 == 0: records between two progress callbacks of the statistics
StatsInterval == 10000
\* current_feed if current_feed > 0 else 1000.0
DefaultFeedWhole == 1000

DefaultFeed == DefaultFeedWhole * NumScale

\* -------------------------------------------------------------------- text
Digits == <<"0", "1", "2", "3", "4", "5", "6", "7", "8", "9">>

LowerCase == <<"a", "b", "c", "d", "e", "f", "g", "h", "i", "j", "k", "l", "m",
               "n", "o", "p", "q", "r", "s", "t", "u", "v", "w", "x", "y", "z">>

UpperCase == <<"A", "B", "C", "D", "E", "F", "G", "H", "I", "J", "K", "L", "M",
               "N", "O", "P", "Q", "R", "S", "T", "U", "V", "W", "X", "Y", "Z">>

Whitespace == {" ", "\t", "\n", "\r"}

DigitSet == {Digits[d] : d \in 1..10}

LowerSet == {LowerCase[k] : k \in 1..26}

IsDigit(c) == c \in DigitSet

DigitVal(c) == (CHOOSE d \in 1..10 : Digits[d] = c) - 1

\* str.upper() on one character
UpperChar(c) ==
    IF c \in LowerSet
    THEN UpperCase[CHOOSE k \in 1..26 : LowerCase[k] = c]
    ELSE c

\* str.upper()
Upper(s) == [p \in 1..Len(s) |-> UpperChar(s[p])]

\* sub in s
Contains(s, sub) ==
    \E p \in 1..(Len(s) - Len(sub) + 1) :
        \A k \in 1..Len(sub) : s[p + k - 1] = sub[k]

\* s.startswith(c) for a one-character prefix
StartsWith(s, c) == Len(s) >= 1 /\ s[1] = c

\* str.strip(): from the first to the last character that is no whitespace
RECURSIVE FirstKept(_, _)
FirstKept(s, p) ==
    IF p > Len(s) THEN p
    ELSE IF s[p] \notin Whitespace THEN p
    ELSE FirstKept(s, p + 1)

RECURSIVE LastKept(_, _)
LastKept(s, p) ==
    IF p < 1 THEN p
    ELSE IF s[p] \notin Whitespace THEN p
    ELSE LastKept(s, p - 1)

Strip(s) == SubSeq(s, FirstKept(s, 1), LastKept(s, Len(s)))

\* Position p of s lies in a match of \([^)]*\): a "(" at or before p with no ")"
\* between it and p, and a ")" at or after p.
InComment(s, p) ==
    /\ \E q \in p..Len(s) : s[q] = ")"
    /\ \E o \in 1..p : /\ s[o] = "("
                       /\ \A r \in o..(p - 1) : s[r] # ")"
                       /\ (o = p => s[p] # ")")

RECURSIVE DropComments(_, _)
DropComments(s, p) ==
    IF p > Len(s) THEN <<>>
    ELSE IF InComment(s, p) THEN DropComments(s, p + 1)
    ELSE <<s[p]>> \o DropComments(s, p + 1)

\* re.sub(r'\([^)]*\)', '', gcode_content)
RemoveComments(s) ==
    IF \A p \in 1..Len(s) : s[p] # "(" THEN s ELSE DropComments(s, 1)

\* str.split('\n'): the text is cut at a line break near its middle and the
\* two parts are split in turn, which keeps the recursion shallow on long texts.
RECURSIVE SplitLines(_)
SplitLines(s) ==
    IF \A p \in 1..Len(s) : s[p] # "\n" THEN <<s>>
    ELSE LET mid == (Len(s) + 1) \div 2
             cut == IF \E p \in mid..Len(s) : s[p] = "\n"
                    THEN CHOOSE p \in mid..Len(s) :
                             s[p] = "\n" /\ \A q \in mid..(p - 1) : s[q] # "\n"
                    ELSE CHOOSE p \in 1..(mid - 1) :
                             s[p] = "\n" /\ \A q \in (p + 1)..(mid - 1) : s[q] # "\n"
         IN  SplitLines(SubSeq(s, 1, cut - 1)) \o SplitLines(SubSeq(s, cut + 1, Len(s)))

\* ------------------------------------------------------------- tokenizer
\* self.pattern: ([XYZABCIJKFR])([-+]?(?:\d+\.?\d*|\.\d+)), re.IGNORECASE
PatternLetters == {"X", "Y", "Z", "A", "B", "C", "I", "J", "K", "F", "R"}

\* First position at or after p that holds no digit (Len(s) + 1 at the end).
RECURSIVE SkipDigits(_, _)
SkipDigits(s, p) ==
    IF p > Len(s) THEN p
    ELSE IF IsDigit(s[p]) THEN SkipDigits(s, p + 1)
    ELSE p

\* The number group matched at p: the position after the match, 0 for no match.
MatchNumber(s, p) ==
    LET q == IF p <= Len(s) /\ s[p] \in {"-", "+"} THEN p + 1 ELSE p
    IN  IF q <= Len(s) /\ IsDigit(s[q])
        THEN LET e1 == SkipDigits(s, q)
                 e2 == IF e1 <= Len(s) /\ s[e1] = "." THEN e1 + 1 ELSE e1
             IN  SkipDigits(s, e2)
        ELSE IF q + 1 <= Len(s) /\ s[q] = "." /\ IsDigit(s[q + 1])
             THEN SkipDigits(s, q + 1)
             ELSE 0

RECURSIVE FindFrom(_, _)
FindFrom(s, p) ==
    IF p > Len(s) THEN <<>>
    ELSE LET e == IF UpperChar(s[p]) \in PatternLetters
                  THEN MatchNumber(s, p + 1) ELSE 0
         IN  IF e # 0
             THEN <<[axis |-> s[p], val_str |-> SubSeq(s, p + 1, e - 1)]>>
                  \o FindFrom(s, e)
             ELSE FindFrom(s, p + 1)

\* self.pattern.findall(line)
FindAll(s) == FindFrom(s, 1)

RECURSIVE WholeValue(_)
WholeValue(ds) ==
    IF ds = <<>> THEN 0
    ELSE 10 * WholeValue(SubSeq(ds, 1, Len(ds) - 1)) + DigitVal(ds[Len(ds)])

\* The fraction digits fs as units: digit k weighs NumScale / 10^k; digits
\* past the resolution are dropped.
RECURSIVE FractionValue(_, _)
FractionValue(fs, weight) ==
    IF fs = <<>> \/ weight = 0 THEN 0
    ELSE DigitVal(fs[1]) * weight + FractionValue(Tail(fs), weight \div 10)

\* float(val_str), in units
ParseFloat(val_str) ==
    LET neg  == Len(val_str) >= 1 /\ val_str[1] = "-"
        body == IF Len(val_str) >= 1 /\ val_str[1] \in {"-", "+"}
                THEN Tail(val_str) ELSE val_str
        dot  == IF \E p \in 1..Len(body) : body[p] = "."
                THEN CHOOSE p \in 1..Len(body) : body[p] = "."
                ELSE Len(body) + 1
        mag  == WholeValue(SubSeq(body, 1, dot - 1)) * NumScale
                + FractionValue(SubSeq(body, dot + 1, Len(body)), NumScale \div 10)
    IN  IF neg THEN 0 - mag ELSE mag

\* --------------------------------------------------------------- numbers
Abs(x) == IF x < 0 THEN 0 - x ELSE x

RECURSIVE GCD(_, _)
GCD(a, b) == IF b = 0 THEN a ELSE GCD(b, a % b)

RECURSIVE SqrtSearch(_, _, _)
SqrtSearch(n, lo, hi) ==
    IF hi - lo <= 1 THEN hi
    ELSE LET mid == (lo + hi) \div 2
         IN  IF mid * mid >= n THEN SqrtSearch(n, lo, mid)
             ELSE SqrtSearch(n, mid, hi)

\* math.sqrt(n), rounded up to a whole unit
CeilSqrt(n) == IF n <= 1 THEN n ELSE SqrtSearch(n, 0, IF n < 46341 THEN n ELSE 46341)

\* The axes of the sequence axes on which the two positions differ.
MovedAxes(p_curr, p_next, axes) ==
    {k \in 1..Len(axes) : p_next[axes[k]] # p_curr[axes[k]]}

\* math.sqrt(sum((n - c) ** 2 ...)) over the axes of the sequence axes.  When a
\* single axis moves the root of the one square is the size of the move, which
\* is taken without forming the square.
EuclidDist(p_curr, p_next, axes) ==
    LET sq[k \in 0..Len(axes)] ==
            IF k = 0 THEN 0
            ELSE sq[k - 1] + (p_next[axes[k]] - p_curr[axes[k]])
                             * (p_next[axes[k]] - p_curr[axes[k]])
    IN  IF Cardinality(MovedAxes(p_curr, p_next, axes)) = 1
        THEN LET k == CHOOSE m \in MovedAxes(p_curr, p_next, axes) : TRUE
             IN  Abs(p_next[axes[k]] - p_curr[axes[k]])
        ELSE CeilSqrt(sq[Len(axes)])

\* math.sqrt(a**2 + b**2) rounded up, for a, b >= 0.  When 0 < a*a <= 2*b + 1 the
\* root lies in (b, b + 1], which is decided without forming b*b.
Hypot(a, b) ==
    IF a = 0 THEN b
    ELSE IF b = 0 THEN a
    ELSE IF a * a <= 2 * b + 1 THEN b + 1
    ELSE CeilSqrt(a * a + b * b)

\* normalize(v): the unit vector of v, represented by the shortest integer vector
\* of the same direction (the zero vector is returned as it is).  Two such
\* vectors r1, r2 stand for unit vectors whose dot product is
\* dot(r1, r2) / sqrt(|r1|^2 * |r2|^2).
normalize(v) ==
    LET g == GCD(GCD(Abs(v[1]), Abs(v[2])), Abs(v[3]))
    IN  IF g = 0 THEN v ELSE <<v[1] \div g, v[2] \div g, v[3] \div g>>

\* math.degrees(math.acos(c)) in units, for c >= 0 with c*c = num/den in lowest
\* terms: the values a pair of vectors with components in {-1, 0, 1} can give.
AcosDeg(num, den) ==
    CASE num = 0 -> 90000000
      [] num = 1 /\ den = 9 -> 70528779
      [] num = 1 /\ den = 4 -> 60000000
      [] num = 1 /\ den = 3 -> 54735610
      [] num = 1 /\ den = 2 -> 45000000
      [] num = 2 /\ den = 3 -> 35264390
      [] num = 1 /\ den = 1 -> 0

\* rot_deg_val: degrees(acos(clamp(dot(normalize(v1), normalize(v2)), -1, 1)))
RotDeg(v1, v2) ==
    LET v1_n == normalize(v1)
        v2_n == normalize(v2)
        n1   == v1_n[1] * v1_n[1] + v1_n[2] * v1_n[2] + v1_n[3] * v1_n[3]
        n2   == v2_n[1] * v2_n[1] + v2_n[2] * v2_n[2] + v2_n[3] * v2_n[3]
        dot  == v1_n[1] * v2_n[1] + v1_n[2] * v2_n[2] + v1_n[3] * v2_n[3]
    IN  IF n1 = 0 \/ n2 = 0 \/ dot = 0 THEN AcosDeg(0, 1)
        ELSE LET g   == GCD(dot * dot, n1 * n2)
                 deg == AcosDeg((dot * dot) \div g, (n1 * n2) \div g)
             IN  IF dot > 0 THEN deg ELSE 180 * NumScale - deg

\* math.asin(p / q) in units (micro-radians), p/q in lowest terms
AsinRad(p, q) ==
    CASE p = 1 /\ q = 1 -> 1570796
      [] p = 1 /\ q = 2 -> 523599
      [] p = 1 /\ q = 3 -> 339837
      [] p = 2 /\ q = 3 -> 729728
      [] p = 1 /\ q = 4 -> 252680
      [] p = 3 /\ q = 4 -> 848062
      [] p = 1 /\ q = 5 -> 201358
      [] p = 2 /\ q = 5 -> 411517
      [] p = 3 /\ q = 5 -> 643501
      [] p = 4 /\ q = 5 -> 927295
      [] p = 1 /\ q = 6 -> 167448
      [] p = 5 /\ q = 6 -> 985111
      [] p = 1 /\ q = 7 -> 143348
      [] p = 2 /\ q = 7 -> 289752
      [] p = 3 /\ q = 7 -> 442911
      [] p = 4 /\ q = 7 -> 608246
      [] p = 5 /\ q = 7 -> 795603
      [] p = 6 /\ q = 7 -> 1029697
      [] p = 1 /\ q = 8 -> 125328
      [] p = 3 /\ q = 8 -> 384397
      [] p = 5 /\ q = 8 -> 675132
      [] p = 7 /\ q = 8 -> 1065436

\* math.pi in units
PiRad == 3141593

\* x * y / NumScale rounded up: the product of two fixed-point numbers
MulUp(x, y) == (x * y + NumScale - 1) \div NumScale

\* The G02/G03 arc length for a chord no longer than 2|R|:
\*   theta = 2 * asin(chord / (2 * abs_r)); if R < 0: theta = 2*pi - theta;
\*   arc_len = abs_r * theta
ArcLength(chord, radius_r) ==
    LET abs_r == Abs(radius_r)
        g     == GCD(chord, 2 * abs_r)
        half  == AsinRad(chord \div g, (2 * abs_r) \div g)
        theta == IF radius_r < 0 THEN 2 * PiRad - 2 * half ELSE 2 * half
    IN  MulUp(abs_r, theta)

\* ---------------------------------------------------------------- engine
\* The keys of current_pos, in the order of full_pos_list_curr.
AllAxes == <<"X", "Y", "Z", "A", "B", "C", "I", "J", "K">>

AxisSet == {AllAxes[k] : k \in 1..9}

XYZ == <<"X", "Y", "Z">>

XYZABC == <<"X", "Y", "Z", "A", "B", "C">>

IJK == <<"I", "J", "K">>

\* current_pos at entry: IJK defaults to the Z direction (0, 0, 1)
HomePos == [a \in AxisSet |-> IF a = "K" THEN NumScale ELSE 0]

\* calc_mode_name
EuclidLabel == "EUCLID"

TcpLabel == "TCP_IJK"

\* Log suffixes (log_suffix); the source's texts are given beside each.
TagSetFeed == "SET_FEED"          \* [設定進給]
TagAuxM == "AUX_M"                \* [輔助功能 M]
TagToolSpeed == "TOOL_SPEED"      \* [刀具/轉速]
TagPrepG == "PREP_G"              \* [準備機能 G]
TagHeader == "HEADER"             \* [程式頭]
TagNoCoords == "NO_COORDS"        \* [無座標資訊]
TagRapid == "RAPID_G00"           \* [快速定位 G00]
TagNoFeed == "WARN_G01_NO_F"      \* [警告: G01 無 F 值]
TagStalled == "G01_STALLED"       \* [G01 停滯]
TagArc == "ARC"                   \* [{motion_mode} 圓弧]
TagRError == "WARN_R_ERROR"       \* [警告: {motion_mode} R錯誤]
TagIJKArc == "IJK_ARC"            \* [{motion_mode} IJK圓弧]
TagNoRApprox == "NO_R_APPROX"     \* [{motion_mode} 無R值近似]
TagEmpty == ""                    \* log_suffix = ""

VARIABLES
    lines,               \* lines: gcode_content without comments, stripped, split
    i,                   \* the for loop's index (lines[i + 1] is up next)
    pc,                  \* "idle" | "check" | "line" | "done"
    current_pos,
    current_feed,
    motion_mode,
    is_tcp_mode,
    calc_mode_name,
    active_axes,
    total_g00_dist,
    detailed_logs,
    log_lines,
    g01_segments_start,
    g01_segments_end,
    parse_result,        \* what parse_and_calculate returned
    cb_calls             \* progress_callback invocations made by this call

engineVars == <<lines, i, pc, current_pos, current_feed, motion_mode,
                is_tcp_mode, calc_mode_name, active_axes, total_g00_dist,
                detailed_logs, log_lines, g01_segments_start, g01_segments_end,
                parse_result, cb_calls>>

Pending == [kind |-> "pending"]

None == [kind |-> "None"]

\* A non-modal variant of the update: a line without a mode word falls back
\* to rapid motion.
UpdateModeNonModal(mode, line_upper) ==
    IF Contains(line_upper, <<"G", "0", "0">>) THEN "G00"
    ELSE IF Contains(line_upper, <<"G", "0", "1">>) THEN "G01"
    ELSE IF Contains(line_upper, <<"G", "0", "2">>) THEN "G02"
    ELSE IF Contains(line_upper, <<"G", "0", "3">>) THEN "G03"
    ELSE "G00"

\* A variant with the priority reversed: G03 before G02 before G01 before G00.
UpdateModeReversed(mode, line_upper) ==
    IF Contains(line_upper, <<"G", "0", "3">>) THEN "G03"
    ELSE IF Contains(line_upper, <<"G", "0", "2">>) THEN "G02"
    ELSE IF Contains(line_upper, <<"G", "0", "1">>) THEN "G01"
    ELSE IF Contains(line_upper, <<"G", "0", "0">>) THEN "G00"
    ELSE mode

\* 1. the modal update of one line
UpdateMode(mode, line_upper) ==
    IF Contains(line_upper, <<"G", "0", "0">>) THEN "G00"
    ELSE IF Contains(line_upper, <<"G", "0", "1">>) THEN "G01"
    ELSE IF Contains(line_upper, <<"G", "0", "2">>) THEN "G02"
    ELSE IF Contains(line_upper, <<"G", "0", "3">>) THEN "G03"
    ELSE mode

\* The tokens of coords for axis letter a (axis.upper() == a), in order.
TokensFor(coords, a) ==
    SelectSeq(coords, LAMBDA t : UpperChar(t.axis) = a)

HasToken(coords, a) == TokensFor(coords, a) # <<>>

\* A variant without forward fill: a letter absent from the line goes back to
\* its initial value.
LastValueNoFill(coords, a, old) ==
    IF TokensFor(coords, a) = <<>> THEN (IF a = "K" THEN NumScale ELSE 0)
    ELSE ParseFloat(TokensFor(coords, a)[Len(TokensFor(coords, a))].val_str)

\* The value the loop over coords leaves for letter a: the last token's, or old.
LastValue(coords, a, old) ==
    LET ts == TokensFor(coords, a)
    IN  IF ts = <<>> THEN old ELSE ParseFloat(ts[Len(ts)].val_str)

\* The tag of a line without coordinates
NonCoordTag(line_upper, feed) ==
    IF Contains(line_upper, <<"F">>) /\ feed > 0 THEN TagSetFeed
    ELSE IF Contains(line_upper, <<"M">>) THEN TagAuxM
    ELSE IF Contains(line_upper, <<"S">>) \/ Contains(line_upper, <<"T">>)
         THEN TagToolSpeed
    ELSE IF StartsWith(line_upper, "G") THEN TagPrepG
    ELSE IF StartsWith(line_upper, "%") \/ StartsWith(line_upper, "O")
         THEN TagHeader
    ELSE TagNoCoords

PosList(pos, axes) == [k \in 1..Len(axes) |-> pos[axes[k]]]

\* A variant without the default feed.
UseFeedNoDefault(feed) == feed

\* use_feed = current_feed if current_feed > 0 else 1000.0
UseFeed(feed) == IF feed > 0 THEN feed ELSE DefaultFeed

\* A variant that is not sticky: the flag follows the current line.
RouteTcpPerLine(tcp, mode, has_ijk_in_line) == mode = "G01" /\ has_ijk_in_line

\* A variant that ignores the motion mode.
RouteTcpAnyMode(tcp, mode, has_ijk_in_line) == tcp \/ has_ijk_in_line

\* The routing flag after a line: G01 with an I, J or K token switches it on.
RouteTcp(tcp, mode, has_ijk_in_line) == tcp \/ (mode = "G01" /\ has_ijk_in_line)

\* A variant without the G00 override: a rapid move is measured on six axes.
ActualDistRapidAllAxes(tcp, mode, p_curr, p_next) ==
    IF tcp /\ mode = "G01"
    THEN Hypot(EuclidDist(p_curr, p_next, XYZ),
               RotDeg(PosList(p_curr, IJK), PosList(p_next, IJK)))
    ELSE EuclidDist(p_curr, p_next, XYZABC)

\* A variant that measures every move on X, Y and Z only.
ActualDistXyzOnly(tcp, mode, p_curr, p_next) ==
    IF tcp /\ mode = "G01"
    THEN Hypot(EuclidDist(p_curr, p_next, XYZ),
               RotDeg(PosList(p_curr, IJK), PosList(p_next, IJK)))
    ELSE EuclidDist(p_curr, p_next, XYZ)

\* 3. actual_dist before the per-mode handling (modes A and B, then G00)
ActualDist(tcp, mode, p_curr, p_next) ==
    IF mode = "G00" THEN EuclidDist(p_curr, p_next, XYZ)
    ELSE IF tcp /\ mode = "G01"
         THEN Hypot(EuclidDist(p_curr, p_next, XYZ),
                    RotDeg(PosList(p_curr, IJK), PosList(p_next, IJK)))
         ELSE EuclidDist(p_curr, p_next, XYZABC)

\* What one loop iteration leaves behind: the new values of the running state
\* and what the line appends to each output list.
Effect(mode, feed, tcp, pos, axes, g00_add, records, seg_start, seg_end, logs) ==
    [mode |-> mode, feed |-> feed, tcp |-> tcp, pos |-> pos, axes |-> axes,
     g00_add |-> g00_add, records |-> records, seg_start |-> seg_start,
     seg_end |-> seg_end, logs |-> logs]

LogEntry(idx, line, log_suffix) ==
    [line |-> idx, text |-> line, suffix |-> log_suffix]

\* A variant in which a G01 line without coordinates switches the routing flag.
NonCoordLineSetsTcp(line, idx, pos, mode, feed, tcp) ==
    Effect(mode, feed, tcp \/ mode = "G01", pos, {}, 0, <<>>, <<>>, <<>>,
           <<LogEntry(idx, line, <<NonCoordTag(Upper(line), feed)>>)>>)

\* [Log] a line without coordinates: tagged, logged, "continue"
NonCoordLine(line, idx, pos, mode, feed, tcp) ==
    Effect(mode, feed, tcp, pos, {}, 0, <<>>, <<>>, <<>>,
           <<LogEntry(idx, line, <<NonCoordTag(Upper(line), feed)>>)>>)

\* A variant in which a rapid move is also written as a cutting record.
RapidLineAlsoCuts(line, idx, next_pos, feed, tcp, touched, actual_dist) ==
    Effect("G00", feed, tcp, next_pos, touched, actual_dist,
           <<[line |-> idx,
              start |-> PosList(next_pos, AllAxes),
              end |-> PosList(next_pos, AllAxes),
              dist |-> actual_dist,
              feed |-> UseFeed(feed),
              info |-> <<"G00">>,
              dist_xyz |-> 0,
              rot_deg |-> 0,
              is_tcp |-> FALSE]>>,
           <<PosList(next_pos, XYZ)>>, <<PosList(next_pos, XYZ)>>,
           <<LogEntry(idx, line, <<TagRapid>>)>>)

\* if motion_mode == 'G00': the XYZ distance joins the rapid total, whatever
\* its size; the line is logged; current_pos = next_pos
RapidLine(line, idx, next_pos, feed, tcp, touched, actual_dist) ==
    Effect("G00", feed, tcp, next_pos, touched, actual_dist, <<>>, <<>>, <<>>,
           <<LogEntry(idx, line, <<TagRapid>>)>>)

\* A variant without the threshold: a G01 line that does not move is recorded.
LinearLineNoThreshold(line, idx, pos, next_pos, feed, tcp, touched, actual_dist, dist_xyz_only, rot_deg_val) ==
    Effect("G01", feed, tcp, next_pos, touched, 0,
           <<[line |-> idx,
              start |-> PosList(pos, AllAxes),
              end |-> PosList(next_pos, AllAxes),
              dist |-> actual_dist,
              feed |-> UseFeed(feed),
              info |-> IF tcp
                       THEN <<"G01 F", UseFeed(feed) \div NumScale, "(TCP)">>
                       ELSE <<"G01 F", UseFeed(feed) \div NumScale>>,
              dist_xyz |-> dist_xyz_only,
              rot_deg |-> rot_deg_val,
              is_tcp |-> tcp]>>,
           <<PosList(pos, XYZ)>>, <<PosList(next_pos, XYZ)>>,
           IF feed <= 0 THEN <<LogEntry(idx, line, <<TagNoFeed>>)>>
           ELSE <<>>)

\* elif motion_mode == 'G01'
LinearLine(line, idx, pos, next_pos, feed, tcp, touched, actual_dist, dist_xyz_only, rot_deg_val) ==
    IF actual_dist > StationaryEps
    THEN Effect("G01", feed, tcp, next_pos, touched, 0,
                <<[line |-> idx,
                   start |-> PosList(pos, AllAxes),
                   end |-> PosList(next_pos, AllAxes),
                   dist |-> actual_dist,
                   feed |-> UseFeed(feed),
                   info |-> IF tcp
                            THEN <<"G01 F", UseFeed(feed) \div NumScale, "(TCP)">>
                            ELSE <<"G01 F", UseFeed(feed) \div NumScale>>,
                   dist_xyz |-> dist_xyz_only,
                   rot_deg |-> rot_deg_val,
                   is_tcp |-> tcp]>>,
                <<PosList(pos, XYZ)>>, <<PosList(next_pos, XYZ)>>,
                IF feed <= 0 THEN <<LogEntry(idx, line, <<TagNoFeed>>)>>
                ELSE <<>>)
    ELSE Effect("G01", feed, tcp, next_pos, touched, 0, <<>>, <<>>, <<>>,
                <<LogEntry(idx, line, <<TagStalled>>)>>)

\* A variant with a strict chord test: a chord of exactly 2|R| is an R error.
ArcKindStrict(mode, has_r, radius_r, has_ijk, tcp, linear_dist_xyz) ==
    IF has_r
    THEN IF linear_dist_xyz < 2 * Abs(radius_r)
         THEN [dist |-> ArcLength(linear_dist_xyz, radius_r),
               note |-> <<mode, "R", radius_r, "(Arc)">>,
               suffix |-> <<mode, TagArc>>]
         ELSE [dist |-> linear_dist_xyz,
               note |-> <<mode, "R_ERROR">>,
               suffix |-> <<mode, TagRError>>]
    ELSE IF has_ijk /\ ~tcp
         THEN [dist |-> linear_dist_xyz,
               note |-> <<mode, "IJK (Arc)">>,
               suffix |-> <<mode, TagIJKArc>>]
         ELSE [dist |-> linear_dist_xyz,
               note |-> <<mode, "(LINEAR_APPROX)">>,
               suffix |-> <<mode, TagNoRApprox>>]

\* A variant in which a radius the chord does not fit ends in the except
\* clause: the note tells of a calculation error and the log has no tag.
ArcKindErrorUntagged(mode, has_r, radius_r, has_ijk, tcp, linear_dist_xyz) ==
    IF has_r
    THEN IF linear_dist_xyz <= 2 * Abs(radius_r)
         THEN [dist |-> ArcLength(linear_dist_xyz, radius_r),
               note |-> <<mode, "R", radius_r, "(Arc)">>,
               suffix |-> <<mode, TagArc>>]
         ELSE [dist |-> linear_dist_xyz,
               note |-> <<mode, "CALC_ERROR">>,
               suffix |-> <<"">>]
    ELSE IF has_ijk /\ ~tcp
         THEN [dist |-> linear_dist_xyz,
               note |-> <<mode, "IJK (Arc)">>,
               suffix |-> <<mode, TagIJKArc>>]
         ELSE [dist |-> linear_dist_xyz,
               note |-> <<mode, "(LINEAR_APPROX)">>,
               suffix |-> <<mode, TagNoRApprox>>]

\* The arc's distance, note and log suffix: lines 252-274.  (The bare except
\* of the source guards a division that the chord test already excludes.)
ArcKind(mode, has_r, radius_r, has_ijk, tcp, linear_dist_xyz) ==
    IF has_r
    THEN IF linear_dist_xyz <= 2 * Abs(radius_r)
         THEN [dist |-> ArcLength(linear_dist_xyz, radius_r),
               note |-> <<mode, "R", radius_r, "(Arc)">>,
               suffix |-> <<mode, TagArc>>]
         ELSE [dist |-> linear_dist_xyz,
               note |-> <<mode, "R_ERROR">>,
               suffix |-> <<mode, TagRError>>]
    ELSE IF has_ijk /\ ~tcp
         THEN [dist |-> linear_dist_xyz,
               note |-> <<mode, "IJK (Arc)">>,
               suffix |-> <<mode, TagIJKArc>>]
         ELSE [dist |-> linear_dist_xyz,
               note |-> <<mode, "(LINEAR_APPROX)">>,
               suffix |-> <<mode, TagNoRApprox>>]

ArcMove(line, idx, mode, pos, next_pos, feed, tcp, touched, arc) ==
    Effect(mode, feed, tcp, next_pos, touched, 0,
           <<[line |-> idx,
              start |-> PosList(pos, AllAxes),
              end |-> PosList(next_pos, AllAxes),
              dist |-> arc.dist,
              feed |-> UseFeed(feed),
              info |-> arc.note,
              dist_xyz |-> 0,
              rot_deg |-> 0,
              is_tcp |-> FALSE]>>,
           <<PosList(pos, XYZ)>>, <<PosList(next_pos, XYZ)>>,
           <<LogEntry(idx, line, arc.suffix)>>)

\* A variant without the test on the chord: every arc line is recorded, one
\* that ends where it starts as an arc without a radius.
ArcLineAlwaysRecorded(line, idx, mode, pos, next_pos, feed, tcp, touched, has_r, radius_r, linear_dist_xyz) ==
    ArcMove(line, idx, mode, pos, next_pos, feed, tcp, touched,
            ArcKind(mode, has_r /\ linear_dist_xyz > StationaryEps, radius_r,
                    touched \cap {"I", "J", "K"} # {}, tcp, linear_dist_xyz))

\* elif motion_mode in ['G02', 'G03']
ArcLine(line, idx, mode, pos, next_pos, feed, tcp, touched, has_r, radius_r, linear_dist_xyz) ==
    IF linear_dist_xyz > StationaryEps
    THEN ArcMove(line, idx, mode, pos, next_pos, feed, tcp, touched,
                 ArcKind(mode, has_r, radius_r,
                         touched \cap {"I", "J", "K"} # {}, tcp, linear_dist_xyz))
    ELSE Effect(mode, feed, tcp, next_pos, touched, 0, <<>>, <<>>, <<>>,
                <<LogEntry(idx, line, <<TagEmpty>>)>>)

\* 3./4. a line with coordinates, the routing flag tcp already updated
MotionLine(line, idx, mode, pos, next_pos, feed, tcp, touched, has_r, radius_r) ==
    IF mode = "G00"
    THEN RapidLine(line, idx, next_pos, feed, tcp, touched,
                   ActualDist(tcp, mode, pos, next_pos))
    ELSE IF mode = "G01"
    THEN LinearLine(line, idx, pos, next_pos, feed, tcp, touched,
                    ActualDist(tcp, mode, pos, next_pos),
                    IF tcp THEN EuclidDist(pos, next_pos, XYZ) ELSE 0,
                    IF tcp THEN RotDeg(PosList(pos, IJK), PosList(next_pos, IJK))
                    ELSE 0)
    ELSE ArcLine(line, idx, mode, pos, next_pos, feed, tcp, touched, has_r,
                 radius_r, EuclidDist(pos, next_pos, XYZ))

\* A variant that measures the line with the routing flag as it was before
\* the line, and switches the flag afterwards.
TokensAppliedFlagAfter(line, idx, mode, pos, next_pos, feed, tcp0, touched, has_r, radius_r) ==
    IF touched = {}
    THEN NonCoordLine(line, idx, pos, mode, feed,
                      RouteTcp(tcp0, mode, FALSE))
    ELSE [MotionLine(line, idx, mode, pos, next_pos, feed, tcp0, touched,
                     has_r, radius_r)
              EXCEPT !.tcp = RouteTcp(tcp0, mode, touched \cap {"I", "J", "K"} # {})]

\* 2. the tokens applied: touched is the set of position axes with a token
\* (has_coords is touched # {}, has_ijk_in_line is touched meeting I, J, K)
TokensApplied(line, idx, mode, pos, next_pos, feed, tcp0, touched, has_r, radius_r) ==
    IF touched = {}
    THEN NonCoordLine(line, idx, pos, mode, feed,
                      RouteTcp(tcp0, mode, FALSE))
    ELSE MotionLine(line, idx, mode, pos, next_pos, feed,
                    RouteTcp(tcp0, mode, touched \cap {"I", "J", "K"} # {}),
                    touched, has_r, radius_r)

\* A variant in which the radius outlives its line: a line without an R token
\* takes the R of the line before it.
LineTokensRadiusKept(line, idx, mode, pos, feed0, tcp0, coords) ==
    LET before == IF idx > 1 THEN FindAll(Strip(lines[idx - 1])) ELSE <<>>
    IN  TokensApplied(line, idx, mode, pos,
                      [a \in AxisSet |-> LastValue(coords, a, pos[a])],
                      LastValue(coords, "F", feed0),
                      tcp0,
                      {a \in AxisSet : HasToken(coords, a)},
                      HasToken(coords, "R") \/ HasToken(before, "R"),
                      LastValue(coords, "R", LastValue(before, "R", 0)))

LineTokens(line, idx, mode, pos, feed0, tcp0, coords) ==
    TokensApplied(line, idx, mode, pos,
                  [a \in AxisSet |-> LastValue(coords, a, pos[a])],
                  LastValue(coords, "F", feed0),
                  tcp0,
                  {a \in AxisSet : HasToken(coords, a)},
                  HasToken(coords, "R"),
                  LastValue(coords, "R", 0))

\* Everything one non-empty line does: lines 92-296 of the loop body.
LineEffect(line, idx, pos, feed0, mode0, tcp0) ==
    LineTokens(line, idx, UpdateMode(mode0, Upper(line)), pos, feed0, tcp0,
               FindAll(line))


\* The locals of parse_and_calculate before its loop, for the text given.
ParseEntry(text) ==
    /\ lines = SplitLines(Strip(RemoveComments(text)))
    /\ i = 0
    /\ pc = "check"
    /\ current_pos = HomePos
    /\ current_feed = 0
    /\ motion_mode = "G00"
    /\ is_tcp_mode = FALSE
    /\ calc_mode_name = EuclidLabel
    /\ active_axes = {}
    /\ total_g00_dist = 0
    /\ detailed_logs = <<>>
    /\ log_lines = <<>>
    /\ g01_segments_start = <<>>
    /\ g01_segments_end = <<>>
    /\ parse_result = Pending
    /\ cb_calls = 0

\* A variant in which the position, the mode, the feed and the routing flag
\* live on from the call before.
ParseCallKeepsModal(text) ==
    /\ lines' = SplitLines(Strip(RemoveComments(text)))
    /\ i' = 0
    /\ pc' = "check"
    /\ UNCHANGED <<current_pos, current_feed, motion_mode, is_tcp_mode,
                   calc_mode_name>>
    /\ active_axes' = {}
    /\ total_g00_dist' = 0
    /\ detailed_logs' = <<>>
    /\ log_lines' = <<>>
    /\ g01_segments_start' = <<>>
    /\ g01_segments_end' = <<>>
    /\ parse_result' = Pending
    /\ cb_calls' = 0

\* The same assignments, made when a running caller enters parse_and_calculate.
ParseCall(text) ==
    /\ lines' = SplitLines(Strip(RemoveComments(text)))
    /\ i' = 0
    /\ pc' = "check"
    /\ current_pos' = HomePos
    /\ current_feed' = 0
    /\ motion_mode' = "G00"
    /\ is_tcp_mode' = FALSE
    /\ calc_mode_name' = EuclidLabel
    /\ active_axes' = {}
    /\ total_g00_dist' = 0
    /\ detailed_logs' = <<>>
    /\ log_lines' = <<>>
    /\ g01_segments_start' = <<>>
    /\ g01_segments_end' = <<>>
    /\ parse_result' = Pending
    /\ cb_calls' = 0

\* No call of parse_and_calculate has been made yet.
EngineIdle ==
    /\ lines = <<>>
    /\ i = 0
    /\ pc = "idle"
    /\ current_pos = HomePos
    /\ current_feed = 0
    /\ motion_mode = "G00"
    /\ is_tcp_mode = FALSE
    /\ calc_mode_name = EuclidLabel
    /\ active_axes = {}
    /\ total_g00_dist = 0
    /\ detailed_logs = <<>>
    /\ log_lines = <<>>
    /\ g01_segments_start = <<>>
    /\ g01_segments_end = <<>>
    /\ parse_result = Pending
    /\ cb_calls = 0

\* A variant that ignores the callback's answer.
CallbackAnswerIgnored(r) ==
    /\ pc = "check"
    /\ i < Len(lines)
    /\ i % ProgressInterval = 0
    /\ cb_calls' = cb_calls + 1
    /\ pc' = "line"
    /\ UNCHANGED <<lines, i, current_pos, current_feed, motion_mode,
                   is_tcp_mode, calc_mode_name, active_axes, total_g00_dist,
                   detailed_logs, log_lines, g01_segments_start,
                   g01_segments_end, parse_result>>

\* if i % 2000 == 0 and progress_callback: if progress_callback(...): return None
\* with r the value the callback returns.
CallbackReturns(r) ==
    /\ pc = "check"
    /\ i < Len(lines)
    /\ i % ProgressInterval = 0
    /\ cb_calls' = cb_calls + 1
    /\ IF r THEN pc' = "done" /\ parse_result' = None
       ELSE pc' = "line" /\ UNCHANGED parse_result
    /\ UNCHANGED <<lines, i, current_pos, current_feed, motion_mode,
                   is_tcp_mode, calc_mode_name, active_axes, total_g00_dist,
                   detailed_logs, log_lines, g01_segments_start,
                   g01_segments_end>>

\* The assignments one non-empty line makes to the running state and lists.
ApplyEffect(e) ==
    /\ motion_mode' = e.mode
    /\ current_feed' = e.feed
    /\ is_tcp_mode' = e.tcp
    /\ calc_mode_name' = IF e.tcp THEN TcpLabel ELSE calc_mode_name
    /\ current_pos' = e.pos
    /\ active_axes' = active_axes \cup e.axes
    /\ total_g00_dist' = total_g00_dist + e.g00_add
    /\ detailed_logs' = detailed_logs \o e.records
    /\ g01_segments_start' = g01_segments_start \o e.seg_start
    /\ g01_segments_end' = g01_segments_end \o e.seg_end
    /\ log_lines' = log_lines \o e.logs

\* A variant that goes past a blank line without asking the callback.
ParseLineBlankUnchecked ==
    /\ pc \in {"check", "line"}
    /\ i < Len(lines)
    /\ (pc = "check" /\ Strip(lines[i + 1]) # <<>>) => i % ProgressInterval # 0
    /\ IF Strip(lines[i + 1]) = <<>>
       THEN UNCHANGED <<current_pos, current_feed, motion_mode, is_tcp_mode,
                        calc_mode_name, active_axes, total_g00_dist,
                        detailed_logs, log_lines, g01_segments_start,
                        g01_segments_end>>
       ELSE ApplyEffect(LineEffect(Strip(lines[i + 1]), i + 1, current_pos,
                                   current_feed, motion_mode, is_tcp_mode))
    /\ i' = i + 1
    /\ pc' = "check"
    /\ UNCHANGED <<lines, parse_result, cb_calls>>

\* The rest of one loop iteration: lines 83-84 and 90-296.
ParseLine ==
    /\ pc \in {"check", "line"}
    /\ i < Len(lines)
    /\ (pc = "check" => i % ProgressInterval # 0)
    /\ IF Strip(lines[i + 1]) = <<>>
       THEN UNCHANGED <<current_pos, current_feed, motion_mode, is_tcp_mode,
                        calc_mode_name, active_axes, total_g00_dist,
                        detailed_logs, log_lines, g01_segments_start,
                        g01_segments_end>>
       ELSE ApplyEffect(LineEffect(Strip(lines[i + 1]), i + 1, current_pos,
                                   current_feed, motion_mode, is_tcp_mode))
    /\ i' = i + 1
    /\ pc' = "check"
    /\ UNCHANGED <<lines, parse_result, cb_calls>>

\* sorted(list(active_axes.union({'X', 'Y', 'Z'})))
SortedAxes(axes) ==
    SelectSeq(UpperCase, LAMBDA c : c \in axes \cup {"X", "Y", "Z"})

\* The loop is exhausted: lines 298-308.
ParseReturn ==
    /\ pc = "check"
    /\ i = Len(lines)
    /\ parse_result' = [kind |-> "dict",
                        data |-> [starts |-> g01_segments_start,
                                  ends |-> g01_segments_end,
                                  skipped |-> log_lines,
                                  axes |-> SortedAxes(active_axes),
                                  g00_dist |-> total_g00_dist,
                                  detailed_logs |-> detailed_logs,
                                  calc_mode |-> calc_mode_name]]
    /\ pc' = "done"
    /\ UNCHANGED <<lines, i, current_pos, current_feed, motion_mode,
                   is_tcp_mode, calc_mode_name, active_axes, total_g00_dist,
                   detailed_logs, log_lines, g01_segments_start,
                   g01_segments_end, cb_calls>>

\* ------------------------------------------ calculate_metrics_and_stats
\* A Python list, and a Python float, as values that can be told from None.
PyList(s) == [kind |-> "list", items |-> s]

PyFloat(v) == [kind |-> "float", v |-> v]

\* fixed_intervals: the start of each interval, in units; an interval ends
\* where the next one starts and the last one ends at float('inf').
IntervalStarts ==
    <<0, 1000, 10000, 20000, 30000, 40000, 50000, 60000, 70000, 80000, 90000,
      100000, 200000, 300000, 400000, 500000, 600000, 700000, 800000, 900000,
      1000000>>

\* label: fmt_val(s) ~ fmt_val(e), or > fmt_val(s) for the last interval
IntervalLabels ==
    <<"0um ~ 1um", "1um ~ 10um", "10um ~ 20um", "20um ~ 30um", "30um ~ 40um",
      "40um ~ 50um", "50um ~ 60um", "60um ~ 70um", "70um ~ 80um",
      "80um ~ 90um", "90um ~ 100um", "100um ~ 200um", "200um ~ 300um",
      "300um ~ 400um", "400um ~ 500um", "500um ~ 600um", "600um ~ 700um",
      "700um ~ 800um", "800um ~ 900um", "900um ~ 1.000mm", "> 1.000mm">>

\* A variant that numbers the bins from 0.
DigitizeFromZero(d) ==
    Cardinality({k \in 1..Len(IntervalStarts) : IntervalStarts[k] <= d}) - 1

\* A variant that closes each interval on the right (np.digitize with
\* right=True).
DigitizeRight(d) ==
    Cardinality({k \in 1..Len(IntervalStarts) : IntervalStarts[k] < d})

\* np.digitize(d, bins): the number of bin edges at or below d (bins are the
\* interval starts followed by inf)
Digitize(d) ==
    Cardinality({k \in 1..Len(IntervalStarts) : IntervalStarts[k] <= d})

RECURSIVE SumSeq(_)
SumSeq(s) == IF s = <<>> THEN 0 ELSE Head(s) + SumSeq(Tail(s))

\* a * b / c rounded down, without forming a * b
MulDiv(a, b, c) == (a \div c) * b + ((a % c) * b) \div c

\* d / f in units of a minute (f is read to 0.001 mm/min)
TimeOf(d, f) == MulDiv(d, 1000, f \div 1000)

\* The feeds of the segments np.digitize puts into bin bin_idx.
BinFeeds(dists, feeds, bin_idx) ==
    LET members == SelectSeq([k \in 1..Len(dists) |-> k],
                             LAMBDA k : Digitize(dists[k]) = bin_idx)
    IN  [j \in 1..Len(members) |-> feeds[members[j]]]

\* total_f / count rounded down, without forming total_f
AvgFeed(fs) ==
    SumSeq([k \in 1..Len(fs) |-> fs[k] \div Len(fs)])
    + SumSeq([k \in 1..Len(fs) |-> fs[k] % Len(fs)]) \div Len(fs)

\* The stats_list entry of interval k (bin_idx = k); pct in units of a percent.
StatsRow(dists, feeds, k) ==
    [label |-> IntervalLabels[k],
     count |-> Len(BinFeeds(dists, feeds, k)),
     pct |-> (Len(BinFeeds(dists, feeds, k)) * 100 * NumScale) \div Len(dists),
     avg_feed |-> IF BinFeeds(dists, feeds, k) = <<>> THEN DefaultFeed
                  ELSE AvgFeed(BinFeeds(dists, feeds, k)),
     min_len |-> IntervalStarts[k],
     max_len |-> IF k < Len(IntervalStarts) THEN IntervalStarts[k + 1]
                 ELSE (IntervalStarts[k] * 3) \div 2]

\* A variant of the insertion that puts a row before the rows of equal count.
RECURSIVE InsertRowBeforeEqual(_, _)
InsertRowBeforeEqual(sorted, row) ==
    IF sorted = <<>> THEN <<row>>
    ELSE IF Head(sorted).count > row.count
         THEN <<Head(sorted)>> \o InsertRowBeforeEqual(Tail(sorted), row)
         ELSE <<row>> \o sorted

\* stats_list.sort(key=count, reverse=True): stable, so rows of equal count
\* keep their interval order.
RECURSIVE InsertRow(_, _)
InsertRow(sorted, row) ==
    IF sorted = <<>> THEN <<row>>
    ELSE IF Head(sorted).count >= row.count
         THEN <<Head(sorted)>> \o InsertRow(Tail(sorted), row)
         ELSE <<row>> \o sorted

RECURSIVE SortRows(_, _)
SortRows(rows, acc) ==
    IF rows = <<>> THEN acc
    ELSE SortRows(Tail(rows), InsertRow(acc, Head(rows)))

\* stats_list after the sort: one row per interval that holds a segment
StatsList(dists, feeds) ==
    SortRows(SelectSeq([k \in 1..Len(IntervalStarts) |-> StatsRow(dists, feeds, k)],
                       LAMBDA row : row.count > 0),
             <<>>)

\* s[:n]
Take(s, n) == SubSeq(s, 1, IF Len(s) < n THEN Len(s) ELSE n)

\* (len / f_avg) * 60000 in hundredths of a millisecond, as range_str prints
\* it (f_avg is read to 0.01 mm/min)
BptCenti(len, f_avg) == MulDiv(len, 600, f_avg \div 10000)

\* A variant that takes the estimate from the last row of the list.
BptInfoLastRow(stats_list) ==
    IF stats_list = <<>> THEN None
    ELSE [kind |-> "dict",
          range_str |-> <<BptCenti(stats_list[Len(stats_list)].min_len,
                                   stats_list[Len(stats_list)].avg_feed),
                          BptCenti(stats_list[Len(stats_list)].max_len,
                                   stats_list[Len(stats_list)].avg_feed)>>,
          f_avg |-> stats_list[Len(stats_list)].avg_feed]

\* bpt_info
BptInfo(stats_list) ==
    IF stats_list = <<>> THEN None
    ELSE IF stats_list[1].avg_feed > 0
         THEN [kind |-> "dict",
               range_str |-> <<BptCenti(stats_list[1].min_len, stats_list[1].avg_feed),
                               BptCenti(stats_list[1].max_len, stats_list[1].avg_feed)>>,
               f_avg |-> stats_list[1].avg_feed]
         ELSE None

\* return all_distances, total_dist, total_time_min, top_10, top_3, bpt_info
StatsTuple(dists, dist_sum, time_sum, stats_list) ==
    [dists |-> PyList(dists), g01 |-> PyFloat(dist_sum),
     time_m |-> PyFloat(time_sum), top10 |-> PyList(Take(stats_list, 10)),
     top3 |-> PyList(Take(stats_list, 3)), bpt |-> BptInfo(stats_list)]

\* return [], 0.0, 0.0, [], [], None
EmptyStats ==
    [dists |-> PyList(<<>>), g01 |-> PyFloat(0), time_m |-> PyFloat(0),
     top10 |-> PyList(<<>>), top3 |-> PyList(<<>>), bpt |-> None]

\* return None, None, None, None, None, None
NoneStats ==
    [dists |-> None, g01 |-> None, time_m |-> None, top10 |-> None,
     top3 |-> None, bpt |-> None]

\* calculate_metrics_and_stats as a whole, for the records of a result and a
\* callback that never asks to stop.
StatsOutcome(logs) ==
    IF logs = <<>> THEN EmptyStats
    ELSE StatsTuple([n \in 1..Len(logs) |-> logs[n].dist],
                    SumSeq([n \in 1..Len(logs) |-> logs[n].dist]),
                    SumSeq([n \in 1..Len(logs) |->
                               IF logs[n].feed > 0
                               THEN TimeOf(logs[n].dist, logs[n].feed) ELSE 0]),
                    StatsList([n \in 1..Len(logs) |-> logs[n].dist],
                              [n \in 1..Len(logs) |-> logs[n].feed]))

\* ------------------------------------------------------------------ host
\* CAMApp and its worker thread.  The user-interface thread runs the button
\* handlers and check_queue, each to completion; the worker runs run_analysis
\* step by step between them.
VARIABLES
    file_path,           \* "" stands for None
    is_running,
    is_paused,
    should_stop,
    msg_queue,
    status_var,
    progress_value,      \* self.progress['value']
    error_box,           \* text of the last messagebox.showerror, "" if none
    polling,             \* an after(100, check_queue) call is scheduled
    closed,              \* root.destroy() has run
    ui_error,            \* the exception that ended a check_queue call
    raw_data,
    detected_axes,
    top_10_stats,
    top_3_stats,
    current_calc_mode,
    btn_analyze,         \* state='normal'
    btn_open,
    btn_pause,
    btn_stop,
    wpc,                 \* where the worker thread stands in run_analysis
    cb_state,            \* "none" | "loop": inside thread_callback's pause loop
    run_content,         \* content of run_analysis
    processed_bytes,
    stats_i,             \* the index i of the loop of calculate_metrics_and_stats
    all_distances,
    all_feeds,
    total_dist,
    total_time_min,
    stats_result,
    cb_true,             \* history: a progress callback of this run returned True
    call_hist            \* history: the text of the current call of
                         \* parse_and_calculate, and the call before it

uiVars == <<file_path, is_running, is_paused, should_stop, status_var,
            progress_value, error_box, polling, closed, ui_error, raw_data,
            detected_axes, top_10_stats, top_3_stats, current_calc_mode,
            btn_analyze, btn_open, btn_pause, btn_stop>>

readVars == <<run_content, processed_bytes>>

statsVars == <<stats_i, all_distances, all_feeds, total_dist, total_time_min,
               stats_result>>

workerVars == <<wpc, cb_state, readVars, statsVars>>

hostVars == <<uiVars, msg_queue, workerVars>>

vars == <<engineVars, hostVars, cb_true, call_hist>>

\* read_file_generator(self, file_path, chunk_size=16384, ...)
ChunkSize == 16384

\* Most messages the queue may hold when a paused callback adds another.
MaxQueue == 3

Msg(type, data) == [type |-> type, data |-> data]

\* The texts of the progress messages.
MsgReading == "READING"              \* 正在讀取檔案
MsgParsing == "PARSING"              \* 正在解析與計算
MsgSumming == "SUMMING"              \* 正在加總數據

\* status_var after set(text), and after set(f"{txt} ({pct:.1f}%)")
StatusText(text) == [txt |-> text]

StatusProgress(txt, pct) == [txt |-> txt, pct |-> pct]

\* (part / whole) * 100, to a whole percent
PctOf(part, whole) == (part * 100) \div whole

NoError == [kind |-> "none"]

KeyError(key) == [kind |-> "KeyError", key |-> key]

TypeError(what) == [kind |-> "TypeError", what |-> what]

\* The files the user can choose: path to text.  "missing.nc" cannot be read.
\* "bins.nc" cuts eleven segments, each in an interval of its own; "edge.nc"
\* cuts one segment of 0.0005, two of exactly 0.001 and one of exactly 1, at
\* feeds 100, 200, 500 and 500; "last.nc" makes a rapid
\* move of 0.5 and cuts one segment of exactly 1.
DiskPaths ==
    {"empty.nc", "rapid.nc", "cut.nc", "tcp.nc", "bins.nc", "edge.nc", "last.nc"}

FileText(path) ==
    CASE path = "empty.nc" -> <<>>
      [] path = "rapid.nc" -> <<"G", "0", "0", " ", "X", ".", "0", "0", "0", "0", "0", "4">>
      [] path = "cut.nc"   -> <<"G", "0", "1", " ", "X", ".", "0", "0", "0", "0", "0", "2", " ", "F", "1", "0", "0", "\n", "X", ".", "0", "1", "5">>
      [] path = "tcp.nc"   -> <<"G", "0", "1", " ", "X", ".", "0", "1", "5", " ", "F", "1", "0", "0", "\n", "G", "0", "1", " ", "I", "1", " ", "J", "0", " ", "K", "0">>
      [] path = "bins.nc"  -> <<"G", "0", "1", " ", "X", ".", "0", "0", "0", "5", " ", "F", "1", "0", "0", "\n", "X", ".", "0", "0", "5", "5", "\n", "X", ".", "0", "2", "0", "5", "\n", "X", ".", "0", "4", "5", "5", "\n", "X", ".", "0", "8", "0", "5", "\n", "X", ".", "1", "2", "5", "5", "\n", "X", ".", "1", "8", "0", "5", "\n", "X", ".", "2", "4", "5", "5", "\n", "X", ".", "3", "2", "0", "5", "\n", "X", ".", "4", "0", "5", "5", "\n", "X", ".", "5", "0", "0", "5">>
      [] path = "edge.nc"  -> <<"G", "0", "1", " ", "X", ".", "0", "0", "0", "5", " ", "F", "1", "0", "0", "\n", "X", ".", "0", "0", "1", "5", " ", "F", "2", "0", "0", "\n", "X", ".", "0", "0", "2", "5", " ", "F", "5", "0", "0", "\n", "X", "1", ".", "0", "0", "2", "5">>
      [] path = "last.nc"  -> <<"G", "0", "0", " ", "X", ".", "5", "\n", "G", "0", "1", " ", "X", "1", ".", "5", " ", "F", "1", "0", "0">>

ChoosablePaths == DiskPaths \cup {"missing.nc"}

\* The state CAMApp.__init__ leaves: nothing chosen, the first check_queue
\* call made and the next one scheduled.
HostInit ==
    /\ file_path = ""
    /\ is_running = FALSE
    /\ is_paused = FALSE
    /\ should_stop = FALSE
    /\ msg_queue = <<>>
    /\ status_var = StatusText("Ready")
    /\ progress_value = 0
    /\ error_box = ""
    /\ polling = TRUE
    /\ closed = FALSE
    /\ ui_error = NoError
    /\ raw_data = None
    /\ detected_axes = <<>>
    /\ top_10_stats = PyList(<<>>)
    /\ top_3_stats = PyList(<<>>)
    /\ current_calc_mode = ""
    /\ btn_analyze = FALSE
    /\ btn_open = TRUE
    /\ btn_pause = FALSE
    /\ btn_stop = FALSE
    /\ wpc = "none"
    /\ cb_state = "none"
    /\ run_content = <<>>
    /\ processed_bytes = 0
    /\ stats_i = 0
    /\ all_distances = <<>>
    /\ all_feeds = <<>>
    /\ total_dist = 0
    /\ total_time_min = 0
    /\ stats_result = Pending
    /\ cb_true = FALSE
    /\ call_hist = [text |-> <<>>, prev |-> None]

\* ---------------------------------------------------- user-interface thread
\* select_file, with a path chosen in the dialog
SelectFile(path) ==
    /\ ~closed
    /\ btn_open
    /\ file_path' = path
    /\ btn_analyze' = TRUE
    /\ status_var' = StatusText("Ready")
    /\ raw_data' = None
    /\ UNCHANGED <<is_running, is_paused, should_stop, progress_value, error_box,
                   polling, closed, ui_error, detected_axes, top_10_stats,
                   top_3_stats, current_calc_mode, btn_open, btn_pause, btn_stop>>
    /\ UNCHANGED <<engineVars, msg_queue, workerVars, cb_true, call_hist>>

\* start_analysis_thread: the worker thread starts at the top of run_analysis
StartAnalysisThread ==
    /\ ~closed
    /\ btn_analyze
    /\ ~is_running
    /\ is_running' = TRUE
    /\ should_stop' = FALSE
    /\ is_paused' = FALSE
    /\ btn_analyze' = FALSE
    /\ btn_open' = FALSE
    /\ btn_pause' = TRUE
    /\ btn_stop' = TRUE
    /\ wpc' = "open"
    /\ run_content' = <<>>
    /\ processed_bytes' = 0
    /\ cb_true' = FALSE
    /\ UNCHANGED call_hist
    /\ UNCHANGED <<file_path, status_var, progress_value, error_box, polling,
                   closed, ui_error, raw_data, detected_axes, top_10_stats,
                   top_3_stats, current_calc_mode>>
    /\ UNCHANGED <<engineVars, msg_queue, cb_state, statsVars>>

\* toggle_pause
TogglePause ==
    /\ ~closed
    /\ btn_pause
    /\ is_paused' = ~is_paused
    /\ UNCHANGED <<file_path, is_running, should_stop, status_var, progress_value,
                   error_box, polling, closed, ui_error, raw_data, detected_axes,
                   top_10_stats, top_3_stats, current_calc_mode, btn_analyze,
                   btn_open, btn_pause, btn_stop>>
    /\ UNCHANGED <<engineVars, msg_queue, workerVars, cb_true, call_hist>>

\* stop_analysis
StopAnalysis ==
    /\ ~closed
    /\ btn_stop
    /\ should_stop' = TRUE
    /\ UNCHANGED <<file_path, is_running, is_paused, status_var, progress_value,
                   error_box, polling, closed, ui_error, raw_data, detected_axes,
                   top_10_stats, top_3_stats, current_calc_mode, btn_analyze,
                   btn_open, btn_pause, btn_stop>>
    /\ UNCHANGED <<engineVars, msg_queue, workerVars, cb_true, call_hist>>

\* on_closing
OnClosing ==
    /\ ~closed
    /\ should_stop' = TRUE
    /\ polling' = FALSE
    /\ closed' = TRUE
    /\ UNCHANGED <<file_path, is_running, is_paused, status_var, progress_value,
                   error_box, ui_error, raw_data, detected_axes, top_10_stats,
                   top_3_stats, current_calc_mode, btn_analyze, btn_open,
                   btn_pause, btn_stop>>
    /\ UNCHANGED <<engineVars, msg_queue, workerVars, cb_true, call_hist>>

\* What check_queue and update_results read and write.
View ==
    [is_running |-> is_running, status_var |-> status_var,
     progress_value |-> progress_value, error_box |-> error_box,
     ui_error |-> ui_error, raw_data |-> raw_data,
     detected_axes |-> detected_axes, top_10_stats |-> top_10_stats,
     top_3_stats |-> top_3_stats, current_calc_mode |-> current_calc_mode,
     btn_analyze |-> btn_analyze, btn_open |-> btn_open,
     btn_pause |-> btn_pause, btn_stop |-> btn_stop]

\* The keys of raw_data that update_results reads after line 468, in order,
\* up to the loop over top_3_stats ...
ReadsBeforeTop3 == <<"is_tcp", "matrix", "g00_dist", "g01_dist", "time">>

\* ... and after it, refresh_detail_view included.
ReadsAfterTop3 == <<"skipped", "matrix", "dists", "modes", "feeds", "is_tcp", "lines">>

MissingKeys(d, keys) == SelectSeq(keys, LAMBDA k : k \notin DOMAIN d)

\* update_results(payload)
UpdateResults(v, payload) ==
    IF "axes" \notin DOMAIN payload.raw_data.data
    THEN [v EXCEPT !.raw_data = payload.raw_data, !.ui_error = KeyError("axes")]
    ELSE IF "calc_mode" \notin DOMAIN payload.raw_data.data
    THEN [v EXCEPT !.raw_data = payload.raw_data,
                   !.detected_axes = payload.raw_data.data.axes,
                   !.top_10_stats = payload.top10,
                   !.top_3_stats = payload.top3,
                   !.ui_error = KeyError("calc_mode")]
    ELSE IF MissingKeys(payload.raw_data.data, ReadsBeforeTop3) # <<>>
    THEN [v EXCEPT !.raw_data = payload.raw_data,
                   !.detected_axes = payload.raw_data.data.axes,
                   !.top_10_stats = payload.top10,
                   !.top_3_stats = payload.top3,
                   !.current_calc_mode = payload.raw_data.data.calc_mode,
                   !.ui_error = KeyError(MissingKeys(payload.raw_data.data,
                                                     ReadsBeforeTop3)[1])]
    ELSE IF payload.top3 = None
    THEN [v EXCEPT !.raw_data = payload.raw_data,
                   !.detected_axes = payload.raw_data.data.axes,
                   !.top_10_stats = payload.top10,
                   !.top_3_stats = payload.top3,
                   !.current_calc_mode = payload.raw_data.data.calc_mode,
                   !.ui_error = TypeError("len(None)")]
    ELSE IF MissingKeys(payload.raw_data.data, ReadsAfterTop3) # <<>>
    THEN [v EXCEPT !.raw_data = payload.raw_data,
                   !.detected_axes = payload.raw_data.data.axes,
                   !.top_10_stats = payload.top10,
                   !.top_3_stats = payload.top3,
                   !.current_calc_mode = payload.raw_data.data.calc_mode,
                   !.ui_error = KeyError(MissingKeys(payload.raw_data.data,
                                                     ReadsAfterTop3)[1])]
    ELSE [v EXCEPT !.raw_data = payload.raw_data,
                   !.detected_axes = payload.raw_data.data.axes,
                   !.top_10_stats = payload.top10,
                   !.top_3_stats = payload.top3,
                   !.current_calc_mode = payload.raw_data.data.calc_mode,
                   !.status_var = StatusText("Analysis Complete")]

\* The status texts that contain "Error": the host sets none.
ErrorStatusTexts == {}

\* A variant in which an ERROR message already ends the run for the host.
HandleMessageErrorEndsRun(v, m) ==
    CASE m.type = "PROGRESS" ->
             [v EXCEPT !.progress_value = m.data.pct,
                       !.status_var = StatusProgress(m.data.msg, m.data.pct)]
      [] m.type = "STATUS" -> [v EXCEPT !.status_var = StatusText(m.data)]
      [] m.type = "DONE" -> UpdateResults(v, m.data)
      [] m.type = "ERROR" ->
             [v EXCEPT !.error_box = m.data,
                       !.is_running = FALSE,
                       !.btn_analyze = TRUE,
                       !.btn_open = TRUE]
      [] m.type = "FINISH" ->
             [v EXCEPT !.is_running = FALSE,
                       !.btn_analyze = TRUE,
                       !.btn_open = TRUE,
                       !.btn_pause = FALSE,
                       !.btn_stop = FALSE,
                       !.progress_value = 0,
                       !.status_var = IF v.status_var.txt \in ErrorStatusTexts
                                      THEN v.status_var
                                      ELSE StatusText("Ready")]

\* One pass of the loop of check_queue, for message m.
HandleMessage(v, m) ==
    CASE m.type = "PROGRESS" ->
             [v EXCEPT !.progress_value = m.data.pct,
                       !.status_var = StatusProgress(m.data.msg, m.data.pct)]
      [] m.type = "STATUS" -> [v EXCEPT !.status_var = StatusText(m.data)]
      [] m.type = "DONE" -> UpdateResults(v, m.data)
      [] m.type = "ERROR" -> [v EXCEPT !.error_box = m.data]
      [] m.type = "FINISH" ->
             [v EXCEPT !.is_running = FALSE,
                       !.btn_analyze = TRUE,
                       !.btn_open = TRUE,
                       !.btn_pause = FALSE,
                       !.btn_stop = FALSE,
                       !.progress_value = 0,
                       !.status_var = IF v.status_var.txt \in ErrorStatusTexts
                                      THEN v.status_var
                                      ELSE StatusText("Ready")]

\* while True: get_nowait() ... until the queue is empty or a handler raises
RECURSIVE Drain(_, _)
Drain(v, q) ==
    IF q = <<>> THEN [view |-> v, rest |-> q]
    ELSE IF HandleMessage(v, Head(q)).ui_error # NoError
         THEN [view |-> HandleMessage(v, Head(q)), rest |-> Tail(q)]
         ELSE Drain(HandleMessage(v, Head(q)), Tail(q))

\* The assignments of a check_queue call that drained the queue to d.
ApplyDrain(d) ==
    /\ msg_queue' = d.rest
    /\ is_running' = d.view.is_running
    /\ status_var' = d.view.status_var
    /\ progress_value' = d.view.progress_value
    /\ error_box' = d.view.error_box
    /\ ui_error' = d.view.ui_error
    /\ raw_data' = d.view.raw_data
    /\ detected_axes' = d.view.detected_axes
    /\ top_10_stats' = d.view.top_10_stats
    /\ top_3_stats' = d.view.top_3_stats
    /\ current_calc_mode' = d.view.current_calc_mode
    /\ btn_analyze' = d.view.btn_analyze
    /\ btn_open' = d.view.btn_open
    /\ btn_pause' = d.view.btn_pause
    /\ btn_stop' = d.view.btn_stop
    /\ polling' = (d.view.ui_error = NoError)

\* check_queue: returns at once when should_stop is set, so that no further
\* call is scheduled; an exception out of a handler ends the call the same way.
CheckQueue ==
    /\ ~closed
    /\ polling
    /\ IF should_stop
       THEN /\ polling' = FALSE
            /\ UNCHANGED <<msg_queue, is_running, status_var, progress_value,
                           error_box, ui_error, raw_data, detected_axes,
                           top_10_stats, top_3_stats, current_calc_mode,
                           btn_analyze, btn_open, btn_pause, btn_stop>>
       ELSE ApplyDrain(Drain(View, msg_queue))
    /\ UNCHANGED <<file_path, is_paused, should_stop, closed>>
    /\ UNCHANGED <<engineVars, workerVars, cb_true, call_hist>>

\* ------------------------------------------------------------ worker thread
\* thread_callback, first line: msg_queue.put(("PROGRESS", (pct, msg)))
CallbackEnter(pct, msg) ==
    /\ cb_state = "none"
    /\ msg_queue' = Append(msg_queue, Msg("PROGRESS", [pct |-> pct, msg |-> msg]))
    /\ cb_state' = "loop"

\* thread_callback, a turn of "while self.is_paused" that goes round again
CallbackPaused ==
    /\ cb_state = "loop"
    /\ is_paused
    /\ ~should_stop
    /\ Len(msg_queue) < MaxQueue
    /\ msg_queue' = Append(msg_queue, Msg("STATUS", "Paused..."))
    /\ UNCHANGED <<engineVars, uiVars, workerVars, cb_true, call_hist>>

\* A variant that returns from the callback while the host is paused.
CallbackExitWhilePaused ==
    /\ cb_state = "loop"
    /\ msg_queue' = IF is_paused
                    THEN Append(msg_queue, Msg("STATUS", "Paused..."))
                    ELSE msg_queue
    /\ cb_state' = "none"
    /\ cb_true' = (cb_true \/ should_stop)
    /\ UNCHANGED call_hist

\* thread_callback returns should_stop: out of the pause loop ("return True"
\* after one more "Paused..." message) or past it
CallbackExit ==
    /\ cb_state = "loop"
    /\ ~is_paused \/ should_stop
    /\ msg_queue' = IF is_paused
                    THEN Append(msg_queue, Msg("STATUS", "Paused..."))
                    ELSE msg_queue
    /\ cb_state' = "none"
    /\ cb_true' = (cb_true \/ should_stop)
    /\ UNCHANGED call_hist

\* A variant without the finally clause: the thread ends after "Cancelled".
RaiseInterruptedThreadEnds ==
    /\ msg_queue' = Append(msg_queue, Msg("STATUS", "Cancelled"))
    /\ wpc' = "none"

\* except InterruptedError: msg_queue.put(("STATUS", "Cancelled"))
RaiseInterrupted ==
    /\ msg_queue' = Append(msg_queue, Msg("STATUS", "Cancelled"))
    /\ wpc' = "finally"

\* run_analysis: the generator's first lines, os.path.getsize and open;
\* a failure is caught by "except Exception" and posted as ERROR
ReadOpen ==
    /\ wpc = "open"
    /\ IF file_path \in DiskPaths
       THEN wpc' = "read" /\ UNCHANGED msg_queue
       ELSE /\ msg_queue' = Append(msg_queue, Msg("ERROR", "READ_ERROR"))
            /\ wpc' = "finally"
    /\ UNCHANGED <<engineVars, uiVars, cb_state, readVars, statsVars, cb_true, call_hist>>

\* The chunk f.read(chunk_size) returns at offset pos
ChunkAt(path, pos) ==
    SubSeq(FileText(path), pos + 1,
           IF pos + ChunkSize < Len(FileText(path)) THEN pos + ChunkSize
           ELSE Len(FileText(path)))

\* read_file_generator: chunk = f.read(chunk_size); at the end of the file the
\* generator finishes, otherwise it calls the callback
ReadChunk ==
    /\ wpc = "read"
    /\ IF ChunkAt(file_path, processed_bytes) = <<>>
       THEN /\ wpc' = "after_read"
            /\ UNCHANGED <<msg_queue, cb_state, processed_bytes>>
       ELSE /\ processed_bytes' = processed_bytes + Len(ChunkAt(file_path, processed_bytes))
            /\ CallbackEnter(PctOf(processed_bytes + Len(ChunkAt(file_path, processed_bytes)),
                                   Len(FileText(file_path))),
                             MsgReading)
            /\ wpc' = "read_cb"
    /\ UNCHANGED <<engineVars, uiVars, run_content, statsVars, cb_true, call_hist>>

\* if progress_callback(...): return None -- else: yield chunk
ReadCallbackReturn ==
    /\ wpc = "read_cb"
    /\ CallbackExit
    /\ wpc' = IF should_stop THEN "after_read" ELSE "read_yield"
    /\ UNCHANGED <<engineVars, uiVars, readVars, statsVars>>

\* content += chunk; if self.should_stop: break
ReadYield ==
    /\ wpc = "read_yield"
    /\ run_content' = run_content \o SubSeq(FileText(file_path),
                                            Len(run_content) + 1, processed_bytes)
    /\ wpc' = IF should_stop THEN "after_read" ELSE "read"
    /\ UNCHANGED <<engineVars, uiVars, msg_queue, cb_state, processed_bytes,
                   statsVars, cb_true, call_hist>>

\* if self.should_stop: raise InterruptedError -- else parse_and_calculate is
\* called with the text read
AfterRead ==
    /\ wpc = "after_read"
    /\ IF should_stop
       THEN RaiseInterrupted /\ UNCHANGED engineVars
       ELSE ParseCall(run_content) /\ wpc' = "parse" /\ UNCHANGED msg_queue
    /\ UNCHANGED <<uiVars, cb_state, readVars, statsVars, cb_true, call_hist>>

\* parse_and_calculate calls thread_callback
HostParseCallback ==
    /\ wpc = "parse"
    /\ pc = "check"
    /\ i < Len(lines)
    /\ i % ProgressInterval = 0
    /\ CallbackEnter(PctOf(i, Len(lines)), MsgParsing)
    /\ UNCHANGED <<engineVars, uiVars, wpc, readVars, statsVars, cb_true, call_hist>>

\* thread_callback returns to parse_and_calculate
HostParseCallbackReturn ==
    /\ wpc = "parse"
    /\ CallbackExit
    /\ CallbackReturns(should_stop)
    /\ UNCHANGED <<uiVars, wpc, readVars, statsVars>>

HostParseLine ==
    /\ wpc = "parse"
    /\ ParseLine
    /\ UNCHANGED <<hostVars, cb_true, call_hist>>

HostParseReturn ==
    /\ wpc = "parse"
    /\ ParseReturn
    /\ UNCHANGED <<hostVars, cb_true, call_hist>>

\* if not data_dict: raise InterruptedError -- else calculate_metrics_and_stats
\* is entered: without cutting records it returns at once
AfterParse ==
    /\ wpc = "parse"
    /\ pc = "done"
    /\ IF parse_result = None
       THEN RaiseInterrupted /\ UNCHANGED statsVars
       ELSE /\ UNCHANGED msg_queue
            /\ stats_i' = 0
            /\ all_distances' = <<>>
            /\ all_feeds' = <<>>
            /\ total_dist' = 0
            /\ total_time_min' = 0
            /\ IF parse_result.data.detailed_logs = <<>>
               THEN stats_result' = EmptyStats /\ wpc' = "post"
               ELSE stats_result' = Pending /\ wpc' = "stats"
    /\ UNCHANGED <<engineVars, uiVars, cb_state, readVars, cb_true, call_hist>>

\* if i % 10000 == 0 and progress_callback: progress_callback(...)
StatsCallback ==
    /\ wpc = "stats"
    /\ stats_i < Len(parse_result.data.detailed_logs)
    /\ stats_i % StatsInterval = 0
    /\ CallbackEnter(PctOf(stats_i, Len(parse_result.data.detailed_logs)), MsgSumming)
    /\ wpc' = "stats_cb"
    /\ UNCHANGED <<engineVars, uiVars, readVars, statsVars, cb_true, call_hist>>

\* ... if it returns True: return None, None, None, None, None, None
StatsCallbackReturn ==
    /\ wpc = "stats_cb"
    /\ CallbackExit
    /\ IF should_stop
       THEN stats_result' = NoneStats /\ wpc' = "post"
       ELSE UNCHANGED stats_result /\ wpc' = "stats_body"
    /\ UNCHANGED <<engineVars, uiVars, readVars, stats_i, all_distances,
                   all_feeds, total_dist, total_time_min>>

\* A variant that totals the XYZ part of each record's distance.
StatsAddXyzPart(log) ==
    /\ all_distances' = Append(all_distances, log.dist)
    /\ all_feeds' = Append(all_feeds, log.feed)
    /\ total_dist' = total_dist + log.dist_xyz
    /\ total_time_min' = IF log.feed > 0
                         THEN total_time_min + TimeOf(log.dist, log.feed)
                         ELSE total_time_min

\* The rest of one pass of the loop, for the record log.
StatsAdd(log) ==
    /\ all_distances' = Append(all_distances, log.dist)
    /\ all_feeds' = Append(all_feeds, log.feed)
    /\ total_dist' = total_dist + log.dist
    /\ total_time_min' = IF log.feed > 0
                         THEN total_time_min + TimeOf(log.dist, log.feed)
                         ELSE total_time_min

StatsRecord ==
    /\ \/ wpc = "stats_body"
       \/ wpc = "stats" /\ stats_i % StatsInterval # 0
    /\ stats_i < Len(parse_result.data.detailed_logs)
    /\ StatsAdd(parse_result.data.detailed_logs[stats_i + 1])
    /\ stats_i' = stats_i + 1
    /\ wpc' = "stats"
    /\ UNCHANGED <<engineVars, uiVars, msg_queue, cb_state, readVars,
                   stats_result, cb_true, call_hist>>

\* After the loop: the histogram bins, the sorted rows, the tuple returned.
StatsReturn ==
    /\ wpc = "stats"
    /\ stats_i = Len(parse_result.data.detailed_logs)
    /\ stats_result' = StatsTuple(all_distances, total_dist, total_time_min,
                                  StatsList(all_distances, all_feeds))
    /\ wpc' = "post"
    /\ UNCHANGED <<engineVars, uiVars, msg_queue, cb_state, readVars, stats_i,
                   all_distances, all_feeds, total_dist, total_time_min, cb_true, call_hist>>

\* result_payload
Payload(data_dict, stats) ==
    [raw_data |-> data_dict, top10 |-> stats.top10, top3 |-> stats.top3,
     bpt |-> stats.bpt, hist_dists |-> stats.dists]

\* self.msg_queue.put(("DONE", result_payload))
PostDone ==
    /\ wpc = "post"
    /\ msg_queue' = Append(msg_queue, Msg("DONE", Payload(parse_result, stats_result)))
    /\ wpc' = "finally"
    /\ UNCHANGED <<engineVars, uiVars, cb_state, readVars, statsVars, cb_true, call_hist>>

\* finally: self.msg_queue.put(("FINISH", None)); the thread ends
Finally ==
    /\ wpc = "finally"
    /\ msg_queue' = Append(msg_queue, Msg("FINISH", None))
    /\ wpc' = "none"
    /\ UNCHANGED <<engineVars, uiVars, cb_state, readVars, statsVars, cb_true, call_hist>>

\* ----------------------------------------------------------------- inputs
RECURSIVE JoinLines(_)
JoinLines(ls) ==
    IF ls = <<>> THEN <<>>
    ELSE IF Len(ls) = 1 THEN ls[1]
    ELSE ls[1] \o <<"\n">> \o JoinLines(Tail(ls))

\* The texts of at most n lines over the line set units.
Programs(units, n) ==
    {JoinLines(p) : p \in UNION {[1..k -> units] : k \in 0..n}}

\* Lines of the core programs: rapid, linear, arc and bare-coordinate moves,
\* moves of one threshold length, a bare mode word, the unpadded G1, tool
\* vectors in G00, G01 and G02 mode, a bare feed word, a rotary axis alone and
\* together with a linear one.
CoreLines ==
    {<<"G", "0", "0", " ", "X", ".", "0", "0", "0", "0", "0", "4">>,
     <<"G", "0", "0", " ", "X", ".", "0", "0", "0", "0", "0", "1", " ", "I", "0", " ", "J", "0", " ", "K", "1">>,
     <<"G", "0", "1", " ", "X", ".", "0", "0", "0", "0", "0", "2", " ", "F", "1", "0", "0">>,
     <<"Y", ".", "0", "0", "0", "0", "0", "1">>,
     <<"G", "0", "1">>,
     <<"G", "1", " ", "X", ".", "0", "0", "0", "0", "0", "4">>,
     <<"G", "0", "1", " ", "I", "1", " ", "J", "0", " ", "K", "0">>,
     <<"G", "0", "2", " ", "X", ".", "0", "0", "0", "0", "0", "4", " ", "I", "0", " ", "J", "1", " ", "K", "0">>,
     <<"F", "2", "0", "0">>,
     <<"A", ".", "0", "0", "0", "0", "0", "2">>,
     <<"X", ".", "0", "0", "0", "0", "0", "4", " ", "A", ".", "0", "0", "0", "0", "0", "4">>}

\* A text long enough for a second progress callback: a first line, blank
\* lines up to index ProgressInterval, and a last line at that index.
LongProgram(first, last) ==
    first \o [k \in 1..ProgressInterval |-> "\n"] \o last

\* The same with one more blank line, so that the line at index
\* ProgressInterval is a blank one.
LongBlankProgram(first, last) ==
    first \o [k \in 1..(ProgressInterval + 1) |-> "\n"] \o last

LongPrograms ==
    {LongProgram(<<"G", "0", "1", " ", "X", ".", "0", "0", "0", "0", "0", "2", " ", "F", "1", "0", "0">>, <<"X", ".", "0", "0", "0", "0", "0", "4">>),
     LongProgram(<<"G", "0", "0", " ", "X", ".", "0", "0", "0", "0", "0", "4">>, <<"G", "0", "1", " ", "I", "1", " ", "J", "0", " ", "K", "0">>),
     LongBlankProgram(<<"G", "0", "1", " ", "X", ".", "0", "0", "0", "0", "0", "2", " ", "F", "1", "0", "0">>, <<"X", ".", "0", "0", "0", "0", "0", "4">>)}

\* Lines of the arc programs: a feed, arcs with a radius (the chord below,
\* at and above 2|R|, a negative radius), an arc without radius or centre, a
\* zero tool vector in G01 mode and a bare coordinate.
ArcLines ==
    {<<"G", "0", "1", " ", "X", ".", "0", "0", "0", "0", "0", "1", " ", "F", "1", "0", "0">>,
     <<"G", "0", "2", " ", "X", ".", "0", "0", "0", "0", "0", "4", " ", "R", ".", "0", "0", "0", "0", "0", "2">>,
     <<"G", "0", "3", " ", "X", ".", "0", "0", "0", "0", "0", "4", " ", "R", ".", "0", "0", "0", "0", "0", "1">>,
     <<"G", "0", "2", " ", "X", ".", "0", "0", "0", "0", "0", "2", " ", "R", "-", ".", "0", "0", "0", "0", "0", "2">>,
     <<"G", "0", "3", " ", "X", "0">>,
     <<"G", "0", "1", " ", "I", "0", " ", "J", "0", " ", "K", "0">>,
     <<"X", ".", "0", "0", "0", "0", "0", "4">>}

\* ------------------------------------------------- the engine on its own
\* parse_and_calculate called with a callback that may answer either way.
Init ==
    /\ \E text \in Programs(CoreLines, MaxLines) : ParseEntry(text)
    /\ HostInit

ProgressCheck ==
    \E r \in BOOLEAN :
        /\ CallbackReturns(r)
        /\ cb_true' = (cb_true \/ r)
        /\ UNCHANGED call_hist
        /\ UNCHANGED hostVars

LineStep == ParseLine /\ UNCHANGED <<hostVars, cb_true, call_hist>>

ReturnStep == ParseReturn /\ UNCHANGED <<hostVars, cb_true, call_hist>>

Next == ProgressCheck \/ LineStep \/ ReturnStep

Spec == Init /\ [][Next]_vars

\* The same on the long programs.
InitLong ==
    /\ \E text \in LongPrograms : ParseEntry(text)
    /\ HostInit

SpecLong == InitLong /\ [][Next]_vars

\* The same on the arc programs.
InitArcs ==
    /\ \E text \in Programs(ArcLines, MaxLines) : ParseEntry(text)
    /\ HostInit

SpecArcs == InitArcs /\ [][Next]_vars

\* ---------------------------------------------------- lines at the edges
\* A zero tool vector in G01 mode, a rotary axis alone, an arc with R0, an
\* arc back to the origin that gives both a centre and a radius, and every
\* pair of mode words in both orders.
EdgeLines ==
    {<<"G", "0", "1", " ", "I", "0", " ", "J", "0", " ", "K", "0", " ", "F", "1", "0", "0">>,
     <<"A", ".", "0", "0", "0", "0", "0", "2">>,
     <<"G", "0", "2", " ", "X", ".", "0", "0", "0", "0", "0", "4", " ", "R", "0">>,
     <<"G", "0", "3", " ", "X", "0", " ", "I", "0", " ", "J", "1", " ", "K", "0", " ", "R", ".", "0", "0", "0", "0", "0", "2">>,
     <<"G", "0", "0", " ", "G", "0", "1", " ", "X", ".", "0", "0", "0", "0", "0", "2">>,
     <<"G", "0", "1", " ", "G", "0", "0", " ", "X", ".", "0", "0", "0", "0", "0", "4">>,
     <<"G", "0", "0", " ", "G", "0", "2", " ", "X", ".", "0", "0", "0", "0", "0", "2", " ", "R", ".", "0", "0", "0", "0", "0", "1">>,
     <<"G", "0", "2", " ", "G", "0", "0", " ", "X", ".", "0", "0", "0", "0", "0", "4", " ", "R", ".", "0", "0", "0", "0", "0", "2">>,
     <<"G", "0", "0", " ", "G", "0", "3", " ", "X", ".", "0", "0", "0", "0", "0", "2">>,
     <<"G", "0", "3", " ", "G", "0", "0", " ", "X", ".", "0", "0", "0", "0", "0", "4">>,
     <<"G", "0", "1", " ", "G", "0", "2", " ", "X", ".", "0", "0", "0", "0", "0", "2", " ", "F", "1", "0", "0">>,
     <<"G", "0", "2", " ", "G", "0", "1", " ", "X", ".", "0", "0", "0", "0", "0", "4", " ", "F", "1", "0", "0">>,
     <<"G", "0", "1", " ", "G", "0", "3", " ", "X", ".", "0", "0", "0", "0", "0", "2">>,
     <<"G", "0", "3", " ", "G", "0", "1", " ", "X", ".", "0", "0", "0", "0", "0", "4">>,
     <<"G", "0", "2", " ", "G", "0", "3", " ", "X", ".", "0", "0", "0", "0", "0", "2", " ", "R", ".", "0", "0", "0", "0", "0", "1">>,
     <<"G", "0", "3", " ", "G", "0", "2", " ", "X", ".", "0", "0", "0", "0", "0", "4", " ", "R", ".", "0", "0", "0", "0", "0", "2">>}

MaxEdgeLines == 2

InitEdge ==
    /\ \E text \in Programs(EdgeLines, MaxEdgeLines) : ParseEntry(text)
    /\ HostInit

SpecEdge == InitEdge /\ [][Next]_vars

\* ------------------------------------------- the engine called repeatedly
\* Lines of the repeated programs: a cut with a feed, a bare coordinate (its
\* effect is that of the mode, feed and position in force) and a tool vector
\* in G01 mode.
RunLines ==
    {<<"G", "0", "1", " ", "X", ".", "0", "0", "0", "0", "0", "2", " ", "F", "1", "0", "0">>, <<"X", ".", "0", "0", "0", "0", "0", "4">>, <<"G", "0", "1", " ", "I", "1", " ", "J", "0", " ", "K", "0">>}

MaxRunLines == 2

\* Texts whose layout differs from that of their lines: a blank first line,
\* and a comment that runs over a line break.
LayoutTexts ==
    {<<"\n", "G", "0", "1", " ", "X", ".", "0", "0", "0", "0", "0", "2", " ", "F", "1", "0", "0">>, <<"X", ".", "0", "0", "0", "0", "0", "4", " ", "(", "a", "\n", "b", ")", "\n", "G", "0", "1", " ", "X", ".", "0", "0", "0", "0", "0", "2", " ", "F", "1", "0", "0">>}

RunTexts == Programs(RunLines, MaxRunLines) \cup LayoutTexts

\* No call made yet, on a new analyzer.
InitRuns == EngineIdle /\ HostInit

\* A caller calls parse_and_calculate on the same analyzer, for the first
\* time or after the call before has returned (a result or None).
RunCall ==
    \E text \in RunTexts :
        /\ pc \in {"idle", "done"}
        /\ ParseCall(text)
        /\ call_hist' =
               [text |-> text,
                prev |-> IF pc = "idle" THEN None
                         ELSE [text |-> call_hist.text, result |-> parse_result,
                               stats |-> stats_result]]
        /\ stats_result' = Pending
        /\ cb_true' = FALSE
        /\ UNCHANGED <<uiVars, msg_queue, wpc, cb_state, readVars, stats_i,
                       all_distances, all_feeds, total_dist, total_time_min>>

\* The caller passes the result to calculate_metrics_and_stats, which runs
\* to its end.
RunStats ==
    /\ pc = "done"
    /\ parse_result # None
    /\ stats_result = Pending
    /\ stats_result' = StatsOutcome(parse_result.data.detailed_logs)
    /\ UNCHANGED <<engineVars, uiVars, msg_queue, wpc, cb_state, readVars,
                   stats_i, all_distances, all_feeds, total_dist,
                   total_time_min, cb_true, call_hist>>

NextRuns == RunCall \/ ProgressCheck \/ LineStep \/ ReturnStep \/ RunStats

SpecRuns == InitRuns /\ [][NextRuns]_vars

\* ------------------------------------------------- the host and its worker
InitHost == EngineIdle /\ HostInit

ChooseFile == \E path \in ChoosablePaths : SelectFile(path)

NextHost ==
    \/ ChooseFile
    \/ StartAnalysisThread
    \/ TogglePause
    \/ StopAnalysis
    \/ OnClosing
    \/ CheckQueue
    \/ CallbackPaused
    \/ ReadOpen
    \/ ReadChunk
    \/ ReadCallbackReturn
    \/ ReadYield
    \/ AfterRead
    \/ HostParseCallback
    \/ HostParseCallbackReturn
    \/ HostParseLine
    \/ HostParseReturn
    \/ AfterParse
    \/ StatsCallback
    \/ StatsCallbackReturn
    \/ StatsRecord
    \/ StatsReturn
    \/ PostDone
    \/ Finally

SpecHost == InitHost /\ [][NextHost]_vars

\* The host with its scheduling.  The worker thread keeps running: each of
\* its steps is taken when it stays possible (for the steps that enter and
\* advance the parser and that close the statistics the condition is written
\* out: AfterReadReady, ParseLineReady and StatsReturnReady are the guards of
\* AfterRead, HostParseLine and StatsReturn).  A
\* check_queue call that root.after has scheduled is made.  What the user
\* does (choosing, starting, pausing, stopping, closing) is left free.
AfterReadReady == wpc = "after_read"

ParseLineReady ==
    /\ wpc = "parse"
    /\ pc \in {"check", "line"}
    /\ i < Len(lines)
    /\ (pc = "check" => i % ProgressInterval # 0)

StatsReturnReady ==
    /\ wpc = "stats"
    /\ stats_i = Len(parse_result.data.detailed_logs)

WorkerFair ==
    /\ WF_vars(CallbackPaused)
    /\ WF_vars(ReadOpen)
    /\ WF_vars(ReadChunk)
    /\ WF_vars(ReadCallbackReturn)
    /\ WF_vars(ReadYield)
    /\ ([]<>(~AfterReadReady) \/ []<><<AfterRead>>_vars)
    /\ WF_vars(HostParseCallback)
    /\ WF_vars(HostParseCallbackReturn)
    /\ ([]<>(~ParseLineReady) \/ []<><<HostParseLine>>_vars)
    /\ WF_vars(HostParseReturn)
    /\ WF_vars(AfterParse)
    /\ WF_vars(StatsCallback)
    /\ WF_vars(StatsCallbackReturn)
    /\ WF_vars(StatsRecord)
    /\ ([]<>(~StatsReturnReady) \/ []<><<StatsReturn>>_vars)
    /\ WF_vars(PostDone)
    /\ WF_vars(Finally)

\* The files chosen in the runs with scheduling: one with a cutting record
\* and one that cannot be opened.
FairPaths == {"cut.nc", "missing.nc"}

ChooseFairFile == \E path \in FairPaths : SelectFile(path)

NextHostFair ==
    \/ ChooseFairFile
    \/ StartAnalysisThread
    \/ TogglePause
    \/ StopAnalysis
    \/ OnClosing
    \/ CheckQueue
    \/ CallbackPaused
    \/ ReadOpen
    \/ ReadChunk
    \/ ReadCallbackReturn
    \/ ReadYield
    \/ AfterRead
    \/ HostParseCallback
    \/ HostParseCallbackReturn
    \/ HostParseLine
    \/ HostParseReturn
    \/ AfterParse
    \/ StatsCallback
    \/ StatsCallbackReturn
    \/ StatsRecord
    \/ StatsReturn
    \/ PostDone
    \/ Finally

SpecHostFair ==
    InitHost /\ [][NextHostFair]_vars /\ WorkerFair /\ WF_vars(CheckQueue)

\* ------------------------------------------------------------- properties
\* What the text of the program says, read off the lines processed so far
\* (lines 1..i), independently of the running state of the loop.
LineText(k) == Strip(lines[k])

TokensOn(k) == FindAll(LineText(k))

ModeNames == <<"G00", "G01", "G02", "G03">>

ModeWordChars == <<<<"G", "0", "0">>, <<"G", "0", "1">>, <<"G", "0", "2">>, <<"G", "0", "3">>>>

\* The zero-padded mode words on line k, as indices into ModeNames.
HasWord(k, w) == Contains(Upper(LineText(k)), ModeWordChars[w])

WordsOn(k) ==
    (IF HasWord(k, 1) THEN {1} ELSE {}) \cup (IF HasWord(k, 2) THEN {2} ELSE {})
    \cup (IF HasWord(k, 3) THEN {3} ELSE {}) \cup (IF HasWord(k, 4) THEN {4} ELSE {})

\* The mode words G0..G3 written without padding on line k: the letter G, one
\* digit, and no digit after it.
UnpaddedOn(k) ==
    {w \in 1..4 :
        \E p \in 1..(Len(LineText(k)) - 1) :
            /\ UpperChar(LineText(k)[p]) = "G"
            /\ LineText(k)[p + 1] = Digits[w]
            /\ (p + 2 <= Len(LineText(k)) => ~IsDigit(LineText(k)[p + 2]))}

Largest(S) == IF S = {} THEN 0 ELSE CHOOSE m \in S : \A n \in S : n <= m

\* The tokens of lines 1..k and the mode words on them, line by line.  The
\* operators below read the text through such a sequence (T for the tokens,
\* W for the words), so that a line is tokenized once per state.
RECURSIVE TokensUpTo(_)
TokensUpTo(k) == IF k = 0 THEN <<>> ELSE Append(TokensUpTo(k - 1), TokensOn(k))

RECURSIVE WordsUpTo(_)
WordsUpTo(k) == IF k = 0 THEN <<>> ELSE Append(WordsUpTo(k - 1), WordsOn(k))

\* The last line at or before k with a zero-padded mode word (0 if none).
LastWordLine(W, k) == Largest({j \in 1..k : W[j] # {}})

\* The last line at or before k with a token for letter a (0 if none), and
\* the value that line gives the letter.
LastLineWith(T, a, k) == Largest({j \in 1..k : HasToken(T[j], a)})

ExplicitValue(T, a, k) ==
    ParseFloat(TokensFor(T[k], a)[Len(TokensFor(T[k], a))].val_str)

HasCoords(T, k) == \E a \in AxisSet : HasToken(T[k], a)

HasIJK(T, k) == \E a \in {"I", "J", "K"} : HasToken(T[k], a)

\* The mode in effect on line k according to the text: the first mode word,
\* in the order G00, G01, G02, G03, of the last line that has one.
ModeAt(W, k) ==
    IF LastWordLine(W, k) = 0 THEN "G00"
    ELSE ModeNames[CHOOSE w \in W[LastWordLine(W, k)] :
                       \A u \in W[LastWordLine(W, k)] : w <= u]

\* The position a stored row (X, Y, Z, A, B, C, I, J, K) stands for.
RowPos(row) == [a \in AxisSet |-> row[CHOOSE k \in 1..9 : AllAxes[k] = a]]

\* The compound distance: the XYZ distance and the tool-vector angle.
CompoundDist(p, q) ==
    Hypot(EuclidDist(p, q, XYZ), RotDeg(PosList(p, IJK), PosList(q, IJK)))

\* C1: the mode in effect for a line without a G00/G01/G02/G03 word is the
\* mode of the most recent earlier line that has one (G00 if there is none),
\* whether or not that earlier line carried coordinates.
C1_ModalMode ==
    LET W == WordsUpTo(i)
    IN  (i >= 1 /\ W[i] = {}) =>
            IF LastWordLine(W, i) = 0 THEN motion_mode = "G00"
            ELSE \E w \in W[LastWordLine(W, i)] : motion_mode = ModeNames[w]

\* A coordinate line without a mode word was cut as G01 after a bare G01 line.
C1_Witness ==
    /\ i = 2
    /\ WordsOn(2) = {} /\ HasCoords(TokensUpTo(2), 2)
    /\ WordsOn(1) = {2} /\ ~HasCoords(TokensUpTo(2), 1)
    /\ motion_mode = "G01"
    /\ Len(detailed_logs) = 1

\* C2: after any prefix of lines, each of X, Y, Z, A, B, C, I, J, K holds the
\* value of the most recent explicit token for it, or its default (0, K = 1),
\* whatever the modes of the lines and also after stationary lines.
C2_ForwardFill ==
    LET T == TokensUpTo(i)
    IN  \A a \in AxisSet :
            current_pos[a] = IF LastLineWith(T, a, i) = 0
                             THEN (IF a = "K" THEN NumScale ELSE 0)
                             ELSE ExplicitValue(T, a, LastLineWith(T, a, i))

\* A stationary G01 line moved Y while X keeps the value of an earlier line.
C2_Witness ==
    /\ i >= 2
    /\ LastLineWith(TokensUpTo(i), "Y", i) = i
    /\ LastLineWith(TokensUpTo(i), "X", i) \in 1..(i - 1)
    /\ current_pos["X"] # 0
    /\ log_lines # <<>>
    /\ log_lines[Len(log_lines)] = LogEntry(i, LineText(i), <<TagStalled>>)

\* C3: once the TCP flag is true it stays true after every later line, and a
\* later G01 segment, with or without I/J/K on its line, gets the compound
\* distance.
C3_Step ==
    is_tcp_mode =>
        /\ is_tcp_mode'
        /\ (motion_mode' = "G01" /\ Len(detailed_logs') > Len(detailed_logs)) =>
               /\ detailed_logs'[Len(detailed_logs')].dist
                      = CompoundDist(current_pos, current_pos')
               /\ detailed_logs'[Len(detailed_logs')].is_tcp

\* C3 as a property of every step: the TCP flag never reverts, and a G01
\* record written while it is set carries the compound distance.
C3_StickyTcp == [][C3_Step]_vars

\* With the flag set by an earlier line, a G01 line without I/J/K was cut and
\* its distance is not the 6-axis norm.
C3_Witness ==
    /\ is_tcp_mode
    /\ i >= 2
    /\ ~HasIJK(TokensUpTo(i), i)
    /\ \E k \in 1..(i - 1) :
           HasIJK(TokensUpTo(i), k) /\ ModeAt(WordsUpTo(i), k) = "G01"
    /\ detailed_logs # <<>>
    /\ detailed_logs[Len(detailed_logs)].line = i
    /\ detailed_logs[Len(detailed_logs)].is_tcp
    /\ detailed_logs[Len(detailed_logs)].dist
           # EuclidDist(RowPos(detailed_logs[Len(detailed_logs)].start),
                        RowPos(detailed_logs[Len(detailed_logs)].end), XYZABC)

\* C4: the TCP flag is true after line n exactly when some line at or before n
\* carried an I, J or K token while its mode was G01; such tokens on G00, G02
\* or G03 lines never set it.
C4_TcpIff ==
    LET T == TokensUpTo(i)
        W == WordsUpTo(i)
    IN  is_tcp_mode <=> \E k \in 1..i : HasIJK(T, k) /\ ModeAt(W, k) = "G01"

\* Lines with a tool vector in G00 and in G02 mode were processed and the flag
\* is still false.
C4_Witness ==
    /\ ~is_tcp_mode
    /\ \E k \in 1..i : HasIJK(TokensUpTo(i), k) /\ ModeAt(WordsUpTo(i), k) = "G00"
    /\ \E k \in 1..i : HasIJK(TokensUpTo(i), k) /\ ModeAt(WordsUpTo(i), k) = "G02"

\* C5: if the progress callback returns true at any stage of a run (reading,
\* parsing, statistics), no DONE message is posted.
C5_NoDoneAfterCancel ==
    cb_true => \A k \in 1..Len(msg_queue) : msg_queue[k].type # "DONE"

\* C6: when the callback returns true at its k-th invocation, the parser
\* processes no further line, makes no further callback and returns None.
C6_Cancelled ==
    cb_true =>
        /\ parse_result = None
        /\ pc = "done"
        /\ i = (cb_calls - 1) * ProgressInterval

C6_Step == cb_true => UNCHANGED engineVars

\* C6 as a property of the run: a true answer leaves the parser returned with
\* None at the line of that invocation, and nothing of the parser changes after.
C6_CancelStops == [](C6_Cancelled) /\ [][C6_Step]_vars

\* The second invocation returned true, at line index ProgressInterval.
C6_Witness ==
    /\ cb_true
    /\ cb_calls = 2
    /\ i = ProgressInterval
    /\ parse_result = None
    /\ Len(log_lines) = 0 /\ Len(detailed_logs) = 1

\* The keys of raw_data the host reads when it handles DONE.
HostReadKeys ==
    {"axes", "calc_mode"}
    \cup {ReadsBeforeTop3[k] : k \in 1..Len(ReadsBeforeTop3)}
    \cup {ReadsAfterTop3[k] : k \in 1..Len(ReadsAfterTop3)}

\* C7: the result record of a run that was not cancelled has every field the
\* host reads, its TCP boolean agrees with the calculation-mode label, and
\* handling DONE never fails on a missing field.
C7_ResultComplete ==
    /\ \A k \in 1..Len(msg_queue) :
           (msg_queue[k].type = "DONE" /\ ~cb_true) =>
               /\ HostReadKeys \subseteq DOMAIN msg_queue[k].data.raw_data.data
               /\ msg_queue[k].data.raw_data.data.is_tcp
                      = (msg_queue[k].data.raw_data.data.calc_mode = TcpLabel)
    /\ ui_error.kind # "KeyError"

\* C8: a line with an unpadded mode word (G0, G1, G2, G3) sets the motion
\* mode as the zero-padded word does.
C8_UnpaddedSetsMode ==
    (i >= 1 /\ UnpaddedOn(i) # {} /\ WordsOn(i) = {}) =>
        \E w \in UnpaddedOn(i) : motion_mode = ModeNames[w]

\* The distance of the segment a step of the loop has just handled: the chord
\* for an arc, the distance of the mode otherwise.
StepDist ==
    IF motion_mode' \in {"G02", "G03"}
    THEN EuclidDist(current_pos, current_pos', XYZ)
    ELSE ActualDist(is_tcp_mode', motion_mode', current_pos, current_pos')

\* C9: a segment of any mode whose distance is at most 0.000001 is stationary:
\* it adds nothing to the rapid total, appends no cutting record, is logged,
\* and the position still moves to the line's target.
C9_Step ==
    (i' = i + 1 /\ HasCoords(TokensUpTo(i'), i') /\ StepDist <= StationaryEps) =>
        /\ total_g00_dist' = total_g00_dist
        /\ detailed_logs' = detailed_logs
        /\ Len(log_lines') = Len(log_lines) + 1
        /\ \A a \in AxisSet :
               HasToken(TokensOn(i'), a) =>
                   current_pos'[a] = ExplicitValue(TokensUpTo(i'), a, i')

\* C9 as a property of every step: a segment of at most 0.000001, in any
\* mode, is handled as stationary.
C9_TinyIsStationary == [][C9_Step]_vars

\* The last line at or before k with an F token, and the feed then in force.
FeedAt(T, k) ==
    IF LastLineWith(T, "F", k) = 0 THEN 0
    ELSE ExplicitValue(T, "F", LastLineWith(T, "F", k))

\* C10: the feed of a cutting record is the most recent F value at or before
\* its line (on the line itself or on an earlier line, with or without
\* coordinates) when that is greater than 0, and 1000 otherwise.
C10_RecordFeed ==
    LET T == TokensUpTo(i)
    IN  \A n \in 1..Len(detailed_logs) :
            detailed_logs[n].feed = IF FeedAt(T, detailed_logs[n].line) > 0
                                    THEN FeedAt(T, detailed_logs[n].line)
                                    ELSE DefaultFeed

\* One record took its feed from a bare F line before it, another has no F
\* before it and carries the default.
C10_Witness ==
    /\ \E n \in 1..Len(detailed_logs) :
           /\ LastLineWith(TokensUpTo(i), "F", detailed_logs[n].line) \in
                  1..(detailed_logs[n].line - 1)
           /\ ~HasCoords(TokensUpTo(i),
                         LastLineWith(TokensUpTo(i), "F", detailed_logs[n].line))
           /\ detailed_logs[n].feed = 200 * NumScale
    /\ \E n \in 1..Len(detailed_logs) :
           /\ LastLineWith(TokensUpTo(i), "F", detailed_logs[n].line) = 0
           /\ detailed_logs[n].feed = DefaultFeed

\* The log entries written for line k.
LogsOf(k) == {m \in 1..Len(log_lines) : log_lines[m].line = k}

\* C11: every cutting move made while no positive feed is in force, a G01
\* move or a G02/G03 arc alike, is written to the log with the no-feed tag.
C11_NoFeedTagged ==
    LET T == TokensUpTo(i)
    IN  \A n \in 1..Len(detailed_logs) :
            FeedAt(T, detailed_logs[n].line) <= 0 =>
                \E m \in LogsOf(detailed_logs[n].line) :
                    log_lines[m].suffix = <<TagNoFeed>>

\* The chord of a record: the XYZ distance between its start and its end.
RecChord(rec) == EuclidDist(RowPos(rec.start), RowPos(rec.end), XYZ)

\* A record made by a G02/G03 line, one whose line gives no R, and one whose
\* line gives an R that the chord fits under (chord <= 2|R|).
IsArcRec(W, rec) == ModeAt(W, rec.line) \in {"G02", "G03"}

HasNoR(T, rec) == ~HasToken(T[rec.line], "R")

FitsRadius(T, rec) ==
    /\ HasToken(T[rec.line], "R")
    /\ RecChord(rec) <= 2 * Abs(ExplicitValue(T, "R", rec.line))

\* C12: a cutting move made with a positive feed in force, a G01 move or an
\* arc whose chord fits its radius, is not written to the log.
C12_FedMoveNotLogged ==
    LET T == TokensUpTo(i)
        W == WordsUpTo(i)
    IN  \A n \in 1..Len(detailed_logs) :
            (/\ FeedAt(T, detailed_logs[n].line) > 0
             /\ IsArcRec(W, detailed_logs[n]) => FitsRadius(T, detailed_logs[n]))
                => LogsOf(detailed_logs[n].line) = {}

\* C13: a G02/G03 line that gives an R, with a chord above 0.000001 and at
\* most 2|R| (a chord of exactly 2|R| included), is a valid arc: it appends a
\* record whose distance is the arc length of that chord and radius, and its
\* log entry carries the arc tag, not the R-error tag.
C13_Step ==
    LET T == TokensUpTo(i')
        chord == EuclidDist(current_pos, current_pos', XYZ)
    IN  (/\ i' = i + 1
         /\ motion_mode' \in {"G02", "G03"}
         /\ HasToken(T[i'], "R")
         /\ chord > StationaryEps
         /\ chord <= 2 * Abs(ExplicitValue(T, "R", i')))
            => /\ Len(detailed_logs') = Len(detailed_logs) + 1
               /\ detailed_logs'[Len(detailed_logs')].line = i'
               /\ detailed_logs'[Len(detailed_logs')].dist =
                      ArcLength(chord, ExplicitValue(T, "R", i'))
               /\ Len(log_lines') = Len(log_lines) + 1
               /\ log_lines'[Len(log_lines')].suffix = <<motion_mode', TagArc>>

\* C13 as a property of every step of the loop.
C13_ValidArc == [][C13_Step]_vars

\* A recorded arc whose chord is exactly twice its radius: a half circle,
\* longer than its chord.
C13_Witness ==
    \E n \in 1..Len(detailed_logs) :
        /\ IsArcRec(WordsUpTo(i), detailed_logs[n])
        /\ HasToken(TokensOn(detailed_logs[n].line), "R")
        /\ RecChord(detailed_logs[n]) =
               2 * Abs(ExplicitValue(TokensUpTo(i), "R", detailed_logs[n].line))
        /\ detailed_logs[n].dist > RecChord(detailed_logs[n])
        /\ \E m \in LogsOf(detailed_logs[n].line) :
               log_lines[m].suffix[2] = TagArc

\* The tags that flag an arc as an approximation or an error.
ApproxOrErrorTags == {TagRError, TagNoRApprox}

\* C14: the record of a G02/G03 line whose chord is longer than 2|R|, or
\* whose line gives no R (with or without I, J, K tokens on it), has the XYZ
\* chord as its distance, and the line's log entry flags it as an
\* approximation or an error.
C14_ChordFallbackFlagged ==
    LET T == TokensUpTo(i)
        W == WordsUpTo(i)
    IN  \A n \in 1..Len(detailed_logs) :
            (IsArcRec(W, detailed_logs[n]) /\ ~FitsRadius(T, detailed_logs[n]))
                => /\ detailed_logs[n].dist = RecChord(detailed_logs[n])
                   /\ \E m \in LogsOf(detailed_logs[n].line) :
                          /\ Len(log_lines[m].suffix) = 2
                          /\ log_lines[m].suffix[2] \in ApproxOrErrorTags

\* C15: every line is of one class.  A step of the loop appends at most one
\* cutting record and at most one log entry and never shortens either list;
\* a line with coordinates in G00 mode is a rapid move and appends no record;
\* a line that appends a record is a G01/G02/G03 line with coordinates, a
\* distance above 0.000001 and no rapid contribution; a line without
\* coordinates appends no record and adds no rapid distance; an empty line
\* does nothing.
C15_Step ==
    LET T == TokensUpTo(i')
        rec == Len(detailed_logs') - Len(detailed_logs)
        logs == Len(log_lines') - Len(log_lines)
        rapid == total_g00_dist' - total_g00_dist
    IN  i' = i + 1 =>
            /\ rec \in {0, 1}
            /\ logs \in {0, 1}
            /\ SubSeq(detailed_logs', 1, Len(detailed_logs)) = detailed_logs
            /\ SubSeq(log_lines', 1, Len(log_lines)) = log_lines
            /\ rapid >= 0
            /\ ~(rapid > 0 /\ rec = 1)
            /\ (HasCoords(T, i') /\ motion_mode' = "G00") => rec = 0
            /\ rec = 1 => /\ HasCoords(T, i')
                          /\ motion_mode' \in {"G01", "G02", "G03"}
                          /\ StepDist > StationaryEps
                          /\ rapid = 0
                          /\ detailed_logs'[Len(detailed_logs')].line = i'
            /\ ~HasCoords(T, i') => (rec = 0 /\ rapid = 0)
            /\ LineText(i') = <<>> => (rec = 0 /\ logs = 0 /\ rapid = 0)

\* C15 as a property of every step of the loop.
C15_OneClass == [][C15_Step]_vars

\* One program has had a rapid move, a cutting move and a stationary move.
C15_Witness ==
    /\ total_g00_dist > 0
    /\ Len(detailed_logs) = 1
    /\ \E m \in 1..Len(log_lines) : log_lines[m].suffix = <<TagRapid>>
    /\ \E m \in 1..Len(log_lines) : log_lines[m].suffix = <<TagStalled>>

\* C16: a step over a line that has no X, Y, Z, A, B, C, I, J or K token
\* leaves the position, the rapid total, the cutting records, the chart
\* segments, the detected axes and the TCP flag (with the name of the
\* calculation mode) as they were; only the motion mode and the feed may
\* change, and then to what the line says.
C16_Step ==
    LET T == TokensUpTo(i')
    IN  (i' = i + 1 /\ ~HasCoords(T, i')) =>
            /\ UNCHANGED <<current_pos, total_g00_dist, detailed_logs,
                           g01_segments_start, g01_segments_end, active_axes,
                           is_tcp_mode, calc_mode_name>>
            /\ motion_mode' # motion_mode => WordsOn(i') # {}
            /\ current_feed' # current_feed => HasToken(T[i'], "F")

\* C16 as a property of every step of the loop.
C16_NonMotionFrame == [][C16_Step]_vars

\* A bare G01 line has changed the mode and a bare F line the feed, after a
\* rapid move, and the position and the rapid total are those of the move.
C16_Witness ==
    /\ i = 3
    /\ HasToken(TokensOn(1), "X")
    /\ ~HasCoords(TokensUpTo(i), 2)
    /\ ~HasCoords(TokensUpTo(i), 3)
    /\ motion_mode = "G01"
    /\ ModeAt(WordsUpTo(i), 1) = "G00"
    /\ current_feed = 200 * NumScale
    /\ total_g00_dist > 0
    /\ current_pos["X"] = ExplicitValue(TokensUpTo(i), "X", 1)
    /\ ~is_tcp_mode
    /\ Len(log_lines) = 3

\* C17: a step over a line with coordinates in G00 mode adds to the rapid
\* total the distance between the old and the new X, Y, Z, whatever the line
\* does to A, B, C, I, J, K, and appends no cutting record.
C17_Step ==
    (i' = i + 1 /\ HasCoords(TokensUpTo(i'), i') /\ motion_mode' = "G00") =>
        /\ total_g00_dist' =
               total_g00_dist + EuclidDist(current_pos, current_pos', XYZ)
        /\ detailed_logs' = detailed_logs
        /\ g01_segments_start' = g01_segments_start

\* C17 as a property of every step of the loop.
C17_RapidXyzOnly == [][C17_Step]_vars

\* One rapid line has moved X and A by 0.000004 each, and the rapid total is
\* the 0.000004 of X alone.
C17_Witness ==
    /\ i = 1
    /\ motion_mode = "G00"
    /\ HasToken(TokensOn(1), "A")
    /\ current_pos["A"] = 4
    /\ current_pos["X"] = 4
    /\ total_g00_dist = 4
    /\ detailed_logs = <<>>

\* C18: while the TCP flag is false, a step over a G01 line with coordinates
\* measures the move over all six of X, Y, Z, A, B, C: when that distance is
\* above 0.000001 the line appends a record with it as its distance, also
\* when only A, B or C changes.
C18_Step ==
    LET d == EuclidDist(current_pos, current_pos', XYZABC)
    IN  (/\ i' = i + 1
         /\ HasCoords(TokensUpTo(i'), i')
         /\ motion_mode' = "G01"
         /\ ~is_tcp_mode'
         /\ d > StationaryEps)
            => /\ Len(detailed_logs') = Len(detailed_logs) + 1
               /\ detailed_logs'[Len(detailed_logs')].line = i'
               /\ detailed_logs'[Len(detailed_logs')].dist = d
               /\ ~detailed_logs'[Len(detailed_logs')].is_tcp

\* C18 as a property of every step of the loop.
C18_SixAxisNorm == [][C18_Step]_vars

\* A record of a G01 line that moved A alone, by 0.000002: X, Y and Z are
\* where they were and the distance is the change in A.
C18_Witness ==
    \E n \in 1..Len(detailed_logs) :
        /\ ModeAt(WordsUpTo(i), detailed_logs[n].line) = "G01"
        /\ ~detailed_logs[n].is_tcp
        /\ RecChord(detailed_logs[n]) = 0
        /\ RowPos(detailed_logs[n].end)["A"] =
               RowPos(detailed_logs[n].start)["A"] + 2
        /\ RowPos(detailed_logs[n].end)["B"] = RowPos(detailed_logs[n].start)["B"]
        /\ RowPos(detailed_logs[n].end)["C"] = RowPos(detailed_logs[n].start)["C"]
        /\ detailed_logs[n].dist = 2

\* A stored row whose tool-axis vector (I, J, K) is the zero vector.
ZeroVector(row) == \A a \in {"I", "J", "K"} : RowPos(row)[a] = 0

\* C19: a TCP record whose tool-axis vector is of zero norm at its start or
\* at its end has no angle: its angular deviation is 0 and its compound
\* distance is its XYZ distance.
C19_ZeroVectorNoAngle ==
    \A n \in 1..Len(detailed_logs) :
        (/\ detailed_logs[n].is_tcp
         /\ ZeroVector(detailed_logs[n].start) \/ ZeroVector(detailed_logs[n].end))
            => /\ detailed_logs[n].rot_deg = 0
               /\ detailed_logs[n].dist = detailed_logs[n].dist_xyz

\* The interval a distance lies in (its start included, its end excluded; the
\* last interval has no end), and the sum of the counts of a list of rows.
BinOf(d) ==
    CHOOSE k \in 1..Len(IntervalStarts) :
        /\ IntervalStarts[k] <= d
        /\ k < Len(IntervalStarts) => d < IntervalStarts[k + 1]

SumCounts(rows) == SumSeq([k \in 1..Len(rows) |-> rows[k].count])

\* calculate_metrics_and_stats has just returned its rows to run_analysis.
StatsReturned == wpc = "post" /\ stats_result.top10.kind = "list"

\* The labels of the rows returned, and the records whose interval is among
\* them.
ReportedLabels ==
    {stats_result.top10.items[k].label : k \in 1..Len(stats_result.top10.items)}

RecordsReported ==
    {n \in 1..Len(parse_result.data.detailed_logs) :
         IntervalLabels[BinOf(parse_result.data.detailed_logs[n].dist)]
             \in ReportedLabels}

\* C20 as stated: the counts of the bins the function returns add up to the
\* number of cutting records.
C20_ReportedSum ==
    StatsReturned =>
        SumCounts(stats_result.top10.items) = Len(parse_result.data.detailed_logs)

\* C20: every cutting record is counted once, in the bin of the interval its
\* distance lies in: each returned row counts exactly the records of its
\* interval, no interval is returned twice, and the counts returned add up to
\* the number of records whose interval is among the (at most ten) returned,
\* which is every record when at most ten intervals hold a record.
C20_BinsPartition ==
    StatsReturned =>
        LET rows == stats_result.top10.items
            recs == parse_result.data.detailed_logs
        IN  /\ \A k \in 1..Len(rows) :
                   rows[k].count =
                       Cardinality({n \in 1..Len(recs) :
                           IntervalLabels[BinOf(recs[n].dist)] = rows[k].label})
            /\ \A j, k \in 1..Len(rows) : j # k => rows[j].label # rows[k].label
            /\ SumCounts(rows) = Cardinality(RecordsReported)
            /\ Cardinality({BinOf(recs[n].dist) : n \in 1..Len(recs)}) <= 10
                   => SumCounts(rows) = Len(recs)

\* Eleven records in eleven intervals: ten rows are returned and their counts
\* add up to ten.
C20_Witness ==
    /\ StatsReturned
    /\ Len(parse_result.data.detailed_logs) = 11
    /\ Len(stats_result.top10.items) = 10
    /\ SumCounts(stats_result.top10.items) = 10
    /\ Cardinality(RecordsReported) = 10

\* The last interval of the partition has no end.
LastLabel == IntervalLabels[Len(IntervalLabels)]

\* The records whose distance lies in the interval of a returned row: at or
\* above its start and, unless it is the last interval, below its end.
RecordsIn(row) ==
    {n \in 1..Len(parse_result.data.detailed_logs) :
         /\ row.min_len <= parse_result.data.detailed_logs[n].dist
         /\ row.label # LastLabel =>
                parse_result.data.detailed_logs[n].dist < row.max_len}

\* C21: a distance d is counted in the interval (s, e) with s <= d < e: the
\* count of every returned row is the number of records at or above the row's
\* start and below its end, and for the last interval the number of records
\* at or above its start.
C21_HalfOpenBins ==
    StatsReturned =>
        \A k \in 1..Len(stats_result.top10.items) :
            stats_result.top10.items[k].count =
                Cardinality(RecordsIn(stats_result.top10.items[k]))

\* Two records of exactly 0.001 are counted in the interval that starts at
\* 0.001, and a record of exactly 1 in the last interval.
C21_Witness ==
    /\ StatsReturned
    /\ \E k \in 1..Len(stats_result.top10.items) :
           /\ stats_result.top10.items[k].min_len = 1000
           /\ stats_result.top10.items[k].count = 2
           /\ \A n \in RecordsIn(stats_result.top10.items[k]) :
                  parse_result.data.detailed_logs[n].dist = 1000
    /\ \E k \in 1..Len(stats_result.top10.items) :
           /\ stats_result.top10.items[k].label = LastLabel
           /\ stats_result.top10.items[k].count = 1
           /\ \A n \in RecordsIn(stats_result.top10.items[k]) :
                  parse_result.data.detailed_logs[n].dist = NumScale

\* The position of a label in the partition.
IntervalOf(label) == CHOOSE k \in 1..Len(IntervalLabels) : IntervalLabels[k] = label

\* The intervals that hold at least one record.
OccupiedIntervals ==
    {BinOf(parse_result.data.detailed_logs[n].dist) :
         n \in 1..Len(parse_result.data.detailed_logs)}

\* C22: the rows returned hold only bins with a count above 0, in the order
\* of their counts, largest first, rows of equal count in the order of their
\* intervals; no bin left out has more records than a bin returned, or as
\* many and an earlier interval; the top-10 list has the first 10 of the
\* occupied bins (all of them when there are fewer), the top-3 list the first
\* 3, and the top-3 list is the start of the top-10 list.
C22_RankedBins ==
    StatsReturned =>
        LET rows == stats_result.top10.items
            top3 == stats_result.top3.items
            Returned == {IntervalOf(rows[k].label) : k \in 1..Len(rows)}
            CountOf(b) ==
                Cardinality({n \in 1..Len(parse_result.data.detailed_logs) :
                    BinOf(parse_result.data.detailed_logs[n].dist) = b})
        IN  /\ \A k \in 1..Len(rows) : rows[k].count > 0
            /\ \A j, k \in 1..Len(rows) :
                   j < k => \/ rows[j].count > rows[k].count
                            \/ /\ rows[j].count = rows[k].count
                               /\ IntervalOf(rows[j].label) < IntervalOf(rows[k].label)
            /\ Returned \subseteq OccupiedIntervals
            /\ \A b \in OccupiedIntervals \ Returned :
                   \A k \in 1..Len(rows) :
                       \/ rows[k].count > CountOf(b)
                       \/ /\ rows[k].count = CountOf(b)
                          /\ IntervalOf(rows[k].label) < b
            /\ Len(rows) = IF Cardinality(OccupiedIntervals) < 10
                           THEN Cardinality(OccupiedIntervals) ELSE 10
            /\ Len(top3) = IF Len(rows) < 3 THEN Len(rows) ELSE 3
            /\ top3 = SubSeq(rows, 1, Len(top3))

\* Three rows are returned: the fullest first, though its interval is the
\* second, then two rows of one record each in the order of their intervals.
C22_Witness ==
    /\ StatsReturned
    /\ Len(stats_result.top10.items) = 3
    /\ stats_result.top10.items[1].count = 2
    /\ stats_result.top10.items[2].count = 1
    /\ stats_result.top10.items[3].count = 1
    /\ IntervalOf(stats_result.top10.items[1].label) = 2
    /\ IntervalOf(stats_result.top10.items[2].label) = 1
    /\ IntervalOf(stats_result.top10.items[3].label) = Len(IntervalLabels)
    /\ stats_result.top3 = stats_result.top10

\* The feeds of the records of interval b, in the order of the records, and
\* their mean, rounded down.
FeedsOfBin(b) ==
    LET recs == SelectSeq(parse_result.data.detailed_logs,
                          LAMBDA rec : BinOf(rec.dist) = b)
    IN  [k \in 1..Len(recs) |-> recs[k].feed]

MeanFeedOfBin(b) == SumSeq(FeedsOfBin(b)) \div Len(FeedsOfBin(b))

\* The ends of interval b as the estimate uses them: the last interval, which
\* has no end, counts as ending at 1.5 times its start.
UpperEnd(b) ==
    IF b < Len(IntervalStarts) THEN IntervalStarts[b + 1]
    ELSE (3 * IntervalStarts[b]) \div 2

\* C23: when the statistics are returned, the BPT estimate is absent exactly
\* when there is no cutting record; otherwise it is that of the first row of
\* the ranked list alone: the time the start and the end of that row's
\* interval take at the mean feed of that row's records, the end of the last
\* interval being 1.5 times its start.
C23_BptFromTopBin ==
    StatsReturned =>
        /\ stats_result.bpt = None <=> parse_result.data.detailed_logs = <<>>
        /\ parse_result.data.detailed_logs # <<>> =>
               LET b == IntervalOf(stats_result.top10.items[1].label)
               IN  /\ stats_result.bpt.f_avg = MeanFeedOfBin(b)
                   /\ stats_result.bpt.range_str =
                          <<BptCenti(IntervalStarts[b], MeanFeedOfBin(b)),
                            BptCenti(UpperEnd(b), MeanFeedOfBin(b))>>

\* The only record lies in the last interval, and the estimate runs from the
\* time of 1 to the time of 1.5 at feed 100: 600 ms to 900 ms.
C23_Witness ==
    /\ StatsReturned
    /\ Len(parse_result.data.detailed_logs) = 1
    /\ stats_result.top10.items[1].label = LastLabel
    /\ stats_result.bpt # None
    /\ stats_result.bpt.f_avg = 100 * NumScale
    /\ stats_result.bpt.range_str = <<60000, 90000>>

\* The position after line k according to the text: for each axis the value
\* of its last token at or before k, and the home value when it has none.
PosAfter(T, k) ==
    [a \in AxisSet |->
        IF LastLineWith(T, a, k) = 0 THEN HomePos[a]
        ELSE ExplicitValue(T, a, LastLineWith(T, a, k))]

\* The G00 segments among lines 1..k (the lines with coordinates in G00
\* mode), and the sum of their XYZ distances.
IsRapidLine(T, W, k) == HasCoords(T, k) /\ ModeAt(W, k) = "G00"

RECURSIVE RapidSum(_, _, _)
RapidSum(T, W, k) ==
    IF k = 0 THEN 0
    ELSE RapidSum(T, W, k - 1)
         + IF IsRapidLine(T, W, k)
           THEN EuclidDist(PosAfter(T, k - 1), PosAfter(T, k), XYZ)
           ELSE 0

\* C24: when the statistics are returned, the rapid total reported is the sum
\* of the distances of the G00 segments, the cutting total the sum of the
\* distances of the cutting records, and the cutting time the sum of their
\* distance over feed; no line is both a G00 segment and a cutting record.
C24_TotalsAreSums ==
    StatsReturned =>
        LET T == TokensUpTo(Len(lines))
            W == WordsUpTo(Len(lines))
            recs == parse_result.data.detailed_logs
        IN  /\ parse_result.data.g00_dist = RapidSum(T, W, Len(lines))
            /\ stats_result.g01.v = SumSeq([n \in 1..Len(recs) |-> recs[n].dist])
            /\ stats_result.time_m.v =
                   SumSeq([n \in 1..Len(recs) |-> TimeOf(recs[n].dist, recs[n].feed)])
            /\ \A n \in 1..Len(recs) : ~IsRapidLine(T, W, recs[n].line)

\* A rapid move of 0.5 and a cut of 1 at feed 100: the totals are 0.5, 1 and
\* 0.01 minutes.
C24_Witness ==
    /\ StatsReturned
    /\ parse_result.data.g00_dist = 500000
    /\ stats_result.g01.v = 1000000
    /\ stats_result.time_m.v = 10000
    /\ Len(parse_result.data.detailed_logs) = 1

\* The axis letters that have a token on some line of the text.
AxesInText ==
    LET T == TokensUpTo(Len(lines))
    IN  {a \in AxisSet : \E k \in 1..Len(lines) : HasToken(T[k], a)}

\* C25: the list of detected axes the engine returns holds exactly the axis
\* letters that appear with a value on some line.
C25_AxesAreThoseUsed ==
    (pc = "done" /\ parse_result # None) =>
        {parse_result.data.axes[k] : k \in 1..Len(parse_result.data.axes)}
            = AxesInText

\* C26: the callback is asked before the line at every index that is a
\* multiple of 2000, index 0 and blank lines included: a step of the loop
\* over such a line is taken only after the callback for that index has
\* returned, and every line handled lies fewer than 2000 lines after the
\* index of the last call.
C26_Step ==
    i' = i + 1 =>
        /\ cb_calls >= 1
        /\ i - (cb_calls - 1) * ProgressInterval \in 0..(ProgressInterval - 1)
        /\ i % ProgressInterval = 0 =>
               (pc = "line" /\ cb_calls = i \div ProgressInterval + 1)

\* C26 as a property of every step of the loop.
C26_CheckEvery2000 == [][C26_Step]_vars

\* The callback has been asked a second time, before the blank line at index
\* 2000, and has returned; the line is still to be handled.
C26_Witness ==
    /\ i = ProgressInterval
    /\ i < Len(lines)
    /\ Strip(lines[i + 1]) = <<>>
    /\ pc = "line"
    /\ cb_calls = 2

\* C27 as stated: while the host is paused, the worker handles no line of the
\* program.
C27_PausedStep == (is_paused /\ wpc = "parse") => i' = i

C27_Step ==
    /\ cb_state = "loop" =>
           /\ i' = i
           /\ stats_i' = stats_i
           /\ processed_bytes' = processed_bytes
           /\ detailed_logs' = detailed_logs
           /\ total_g00_dist' = total_g00_dist
           /\ current_pos' = current_pos
    /\ (cb_state = "loop" /\ cb_state' = "none") =>
           /\ ~is_paused \/ should_stop
           /\ (should_stop /\ wpc = "parse") =>
                  (pc' = "done" /\ parse_result' = None /\ cb_true')
           /\ (~should_stop /\ wpc = "parse") => (pc' = "line" /\ i' = i)
    /\ (wpc = "parse" /\ pc = "done" /\ parse_result = None /\ wpc' # wpc) =>
           /\ wpc' = "finally"
           /\ msg_queue' = Append(msg_queue, Msg("STATUS", "Cancelled"))
           /\ UNCHANGED statsVars

FreshLocals ==
    [mode |-> "G00", feed |-> 0, tcp |-> FALSE, calc |-> EuclidLabel,
     pos |-> HomePos, axes |-> {}, g00 |-> 0, records |-> <<>>,
     starts |-> <<>>, ends |-> <<>>, logs |-> <<>>]

AfterLine(st, line, idx) ==
    IF line = <<>> THEN st
    ELSE LET e == LineEffect(line, idx, st.pos, st.feed, st.mode, st.tcp)
         IN  [mode |-> e.mode, feed |-> e.feed, tcp |-> e.tcp,
              calc |-> IF e.tcp THEN TcpLabel ELSE st.calc,
              pos |-> e.pos, axes |-> st.axes \cup e.axes,
              g00 |-> st.g00 + e.g00_add, records |-> st.records \o e.records,
              starts |-> st.starts \o e.seg_start, ends |-> st.ends \o e.seg_end,
              logs |-> st.logs \o e.logs]

RECURSIVE AfterLines(_, _)
AfterLines(ls, k) ==
    IF k = 0 THEN FreshLocals
    ELSE AfterLine(AfterLines(ls, k - 1), Strip(ls[k]), k)

FreshResult(text) ==
    LET ls == SplitLines(Strip(RemoveComments(text)))
        st == AfterLines(ls, Len(ls))
    IN  [kind |-> "dict",
         data |-> [starts |-> st.starts, ends |-> st.ends, skipped |-> st.logs,
                   axes |-> SortedAxes(st.axes), g00_dist |-> st.g00,
                   detailed_logs |-> st.records, calc_mode |-> st.calc]]

\* C28: what a call returns is a function of its text only, whatever calls
\* were made on the analyzer before: a result returned by parse_and_calculate
\* is the one computed from the text starting from the entry values, the
\* statistics are those of that result, and a call on the same text as the
\* call before it returns an equal result and equal statistics.
C28_RunsIndependent ==
    /\ (pc = "done" /\ parse_result # None) =>
           parse_result = FreshResult(call_hist.text)
    /\ stats_result # Pending =>
           stats_result =
               StatsOutcome(FreshResult(call_hist.text).data.detailed_logs)
    /\ (pc = "done" /\ call_hist.prev # None) =>
           (call_hist.prev.text = call_hist.text =>
               /\ (parse_result # None /\ call_hist.prev.result # None) =>
                      parse_result = call_hist.prev.result
               /\ (stats_result # Pending /\ call_hist.prev.stats # Pending) =>
                      stats_result = call_hist.prev.stats)

\* Two calls in a row on one text of two lines, both run to the end with
\* their statistics: the results hold a cutting record and are equal.
C28_Witness ==
    /\ pc = "done"
    /\ call_hist.prev # None
    /\ call_hist.prev.text = call_hist.text
    /\ Len(lines) = 2
    /\ parse_result # None
    /\ parse_result.data.detailed_logs # <<>>
    /\ parse_result.data.g00_dist > 0
    /\ call_hist.prev.result = parse_result
    /\ stats_result # Pending
    /\ call_hist.prev.stats = stats_result

\* C29: a radius belongs to the line that gives it.  A G02/G03 line without an
\* R token that moves the tool is handled as an arc without a radius, whatever
\* the lines before it gave: its record has the chord as distance and its log
\* entry carries the IJK tag or the no-R tag, never the arc or R-error tag.
C29_Step ==
    LET T == TokensUpTo(i')
        chord == EuclidDist(current_pos, current_pos', XYZ)
    IN  (/\ i' = i + 1
         /\ motion_mode' \in {"G02", "G03"}
         /\ HasCoords(T, i')
         /\ ~HasToken(T[i'], "R")
         /\ chord > StationaryEps)
            => /\ Len(detailed_logs') = Len(detailed_logs) + 1
               /\ detailed_logs'[Len(detailed_logs')].line = i'
               /\ detailed_logs'[Len(detailed_logs')].dist = chord
               /\ Len(log_lines') = Len(log_lines) + 1
               /\ log_lines'[Len(log_lines')].suffix \in
                      {<<motion_mode', TagNoRApprox>>, <<motion_mode', TagIJKArc>>}

\* C29 as a property of every step of the loop.
C29_RadiusOfItsLine == [][C29_Step]_vars

\* An arc line without R, recorded with its chord and the no-R tag, right
\* after an arc line whose R that chord would have fitted.
C29_Witness ==
    \E n \in 2..Len(detailed_logs) :
        /\ detailed_logs[n].line = detailed_logs[n - 1].line + 1
        /\ IsArcRec(WordsUpTo(i), detailed_logs[n])
        /\ IsArcRec(WordsUpTo(i), detailed_logs[n - 1])
        /\ HasNoR(TokensUpTo(i), detailed_logs[n])
        /\ HasToken(TokensOn(detailed_logs[n - 1].line), "R")
        /\ RecChord(detailed_logs[n]) <=
               2 * Abs(ExplicitValue(TokensUpTo(i), "R", detailed_logs[n - 1].line))
        /\ detailed_logs[n].dist = RecChord(detailed_logs[n])
        /\ \E m \in LogsOf(detailed_logs[n].line) :
               log_lines[m].suffix[2] = TagNoRApprox

\* Where the lines the loop sees come from.  Kept(s): the positions of s
\* outside every comment; Body(s): those that str.strip leaves; the line of
\* the loop a kept position falls in, and the line of the text it stands on.
Kept(s) == {p \in 1..Len(s) : ~InComment(s, p)}

Body(s) ==
    LET kept == Kept(s)
        ink == {p \in kept : s[p] \notin Whitespace}
    IN  {p \in kept : (\E q \in ink : q <= p) /\ (\E q \in ink : q >= p)}

LoopLineAt(s, body, p) == 1 + Cardinality({q \in body : q < p /\ s[q] = "\n"})

InputLineAt(s, p) == 1 + Cardinality({q \in 1..(p - 1) : s[q] = "\n"})

\* The line of the text s on which line k of the loop begins (0 when line k
\* of the loop holds nothing but blanks).
SourceLine(s, k) ==
    LET body == Body(s)
        own == {p \in body : s[p] \notin Whitespace /\ LoopLineAt(s, body, p) = k}
    IN  IF own = {} THEN 0
        ELSE InputLineAt(s, CHOOSE p \in own : \A q \in own : p <= q)

\* C30: the line number of every cutting record and of every log entry is
\* the 1-based number, in the text given to the engine, of the line that made
\* it, also for a text that begins with blank lines or holds a comment
\* running over a line break.
C30_LineIsInputIndex ==
    /\ \A n \in 1..Len(detailed_logs) :
           detailed_logs[n].line = SourceLine(call_hist.text, detailed_logs[n].line)
    /\ \A m \in 1..Len(log_lines) :
           log_lines[m].line = SourceLine(call_hist.text, log_lines[m].line)

\* C31: once a stop is requested during a running analysis, the host comes to
\* handle the run's FINISH message (unless the window is closed first):
\* is_running is false and the analyze and open buttons are enabled again.
C31_StopThenReady ==
    (should_stop /\ is_running /\ ~closed)
        ~> (closed \/ (~is_running /\ btn_analyze /\ btn_open))

\* C32: once the worker of a run has posted DONE, the host comes to handle
\* DONE and then FINISH (unless a stop is requested or the window is closed
\* first): is_running is false, the analyze button is enabled and check_queue
\* is still scheduled.
C32_DoneThenReady ==
    (\E k \in 1..Len(msg_queue) : msg_queue[k].type = "DONE")
        ~> (closed \/ should_stop \/ (~is_running /\ btn_analyze /\ polling))

\* A step in which the worker posts a message, the message posted, and the
\* three messages that tell how a run went.
Posts == Len(msg_queue') = Len(msg_queue) + 1

LastPosted == msg_queue'[Len(msg_queue')]

IsOutcome(m) ==
    \/ m.type \in {"DONE", "ERROR"}
    \/ m.type = "STATUS" /\ m.data = "Cancelled"

\* The worker's life, step by step: it starts at the top of run_analysis;
\* it posts DONE, "Cancelled" or ERROR exactly when it enters the finally
\* clause, which it enters once; from there its only step posts FINISH and
\* ends the thread; a thread that has ended posts nothing.
C33_Step ==
    /\ (wpc = "none" /\ wpc' # "none") => wpc' = "open"
    /\ Posts => wpc # "none"
    /\ (Posts /\ IsOutcome(LastPosted)) =>
           (wpc \notin {"finally", "none"} /\ wpc' = "finally")
    /\ (wpc # "finally" /\ wpc' = "finally") => (Posts /\ IsOutcome(LastPosted))
    /\ (Posts /\ LastPosted.type = "FINISH") => (wpc = "finally" /\ wpc' = "none")
    /\ (wpc = "finally" /\ wpc' # "finally") =>
           (Posts /\ LastPosted.type = "FINISH" /\ wpc' = "none")
    /\ (wpc # "none" /\ wpc' = "none") => wpc = "finally"

C34_Step ==
    /\ (wpc' = "open" /\ wpc # "open") =>
           (wpc = "none" /\ ~is_running /\ is_running')
    /\ (is_running /\ ~is_running') =>
           /\ wpc = "none"
           /\ wpc' = "none"
           /\ \E k \in 1..Len(msg_queue) : msg_queue[k].type = "FINISH"
           /\ Len(msg_queue') < Len(msg_queue)

\* C34: at most one worker runs the engine at any time: while a worker is
\* alive is_running is true, so that start_analysis_thread starts no second
\* one, and is_running is cleared only when the FINISH of that worker is
\* handled.
C34_OneWorker == [](wpc # "none" => is_running) /\ [][C34_Step]_vars

\* A second worker is parsing, after the run before it failed and its FINISH
\* was handled: the error of that run is still shown.
C34_Witness ==
    /\ wpc = "parse"
    /\ is_running
    /\ error_box # ""

\* C35: the line that switches the TCP flag on is itself measured with the
\* compound formula.  A step that sets the flag is a step over a G01 line, and
\* what it records is decided by the XYZ distance combined with the angle
\* between the old and the new tool vector: above 0.000001 the line appends a
\* TCP record with that distance, its XYZ part and its angle; otherwise it
\* appends none.
C35_Step ==
    LET xyz == EuclidDist(current_pos, current_pos', XYZ)
        rot == RotDeg(PosList(current_pos, IJK), PosList(current_pos', IJK))
    IN  (~is_tcp_mode /\ is_tcp_mode') =>
            /\ i' = i + 1
            /\ motion_mode' = "G01"
            /\ IF Hypot(xyz, rot) > StationaryEps
               THEN /\ Len(detailed_logs') = Len(detailed_logs) + 1
                    /\ detailed_logs'[Len(detailed_logs')].line = i'
                    /\ detailed_logs'[Len(detailed_logs')].dist = Hypot(xyz, rot)
                    /\ detailed_logs'[Len(detailed_logs')].dist_xyz = xyz
                    /\ detailed_logs'[Len(detailed_logs')].rot_deg = rot
                    /\ detailed_logs'[Len(detailed_logs')].is_tcp
               ELSE detailed_logs' = detailed_logs

\* C35 as a property of every step of the loop.
C35_ActivatingLineCompound == [][C35_Step]_vars

\* The first record of the text is a TCP record on a line that turned the
\* tool vector by 90 degrees without moving any of X, Y, Z, A, B, C: on six
\* axes the line would be stationary, and its distance is the angle.
C35_Witness ==
    /\ detailed_logs # <<>>
    /\ detailed_logs[1].is_tcp
    /\ \A k \in 1..(detailed_logs[1].line - 1) :
           ~(HasIJK(TokensUpTo(i), k) /\ ModeAt(WordsUpTo(i), k) = "G01")
    /\ EuclidDist(RowPos(detailed_logs[1].start), RowPos(detailed_logs[1].end),
                  XYZABC) = 0
    /\ detailed_logs[1].rot_deg = 90 * NumScale
    /\ detailed_logs[1].dist = 90 * NumScale

\* C36: while the TCP flag is true, a G01 line that changes A, B or C and
\* leaves X, Y, Z, I, J and K as they were is stationary: the step appends no
\* cutting record and no chart segment, and its log entry carries the
\* stationary tag.
C36_Step ==
    (/\ i' = i + 1
     /\ is_tcp_mode
     /\ motion_mode' = "G01"
     /\ \A a \in {"X", "Y", "Z", "I", "J", "K"} : current_pos'[a] = current_pos[a]
     /\ \E a \in {"A", "B", "C"} : current_pos'[a] # current_pos[a])
        => /\ detailed_logs' = detailed_logs
           /\ g01_segments_start' = g01_segments_start
           /\ Len(log_lines') = Len(log_lines) + 1
           /\ log_lines'[Len(log_lines')].suffix = <<TagStalled>>

\* C36 as a property of every step of the loop.
C36_RotaryAloneStationary == [][C36_Step]_vars

\* C37: a G02/G03 line whose end point is within 0.000001 of its start point
\* in X, Y, Z appends no cutting record and no chart segment, whatever R, I, J
\* or K it gives: the test is made on the chord.  The position is updated and
\* the line is logged with the empty tag.
C37_Step ==
    (/\ i' = i + 1
     /\ motion_mode' \in {"G02", "G03"}
     /\ HasCoords(TokensUpTo(i'), i')
     /\ EuclidDist(current_pos, current_pos', XYZ) <= StationaryEps)
        => /\ detailed_logs' = detailed_logs
           /\ g01_segments_start' = g01_segments_start
           /\ g01_segments_end' = g01_segments_end
           /\ total_g00_dist' = total_g00_dist
           /\ Len(log_lines') = Len(log_lines) + 1
           /\ log_lines'[Len(log_lines')].suffix = <<TagEmpty>>

\* C37 as a property of every step of the loop.
C37_ClosedArcNotRecorded == [][C37_Step]_vars

\* A first line in G03 mode that gives X, a centre and a radius and ends at
\* the origin, where it starts: it is logged, and there is no record.
C37_Witness ==
    /\ i = 1
    /\ motion_mode = "G03"
    /\ HasToken(TokensOn(1), "X")
    /\ HasToken(TokensOn(1), "R")
    /\ HasIJK(TokensUpTo(1), 1)
    /\ current_pos["X"] = 0
    /\ detailed_logs = <<>>
    /\ Len(log_lines) = 1

\* The least of a non-empty set of indices.
Least(S) == CHOOSE m \in S : \A n \in S : m <= n

\* The place of mode word w on line k: where its first occurrence begins.
WordPlace(k, w) ==
    Least({p \in 1..Len(LineText(k)) :
              /\ p + 2 <= Len(LineText(k))
              /\ SubSeq(Upper(LineText(k)), p, p + 2) = ModeWordChars[w]})

\* C39: a step over a line with two or more of the words G00, G01, G02, G03
\* sets the mode to the first of them in the order G00, G01, G02, G03,
\* wherever the words stand on the line.
C39_Step ==
    (i' = i + 1 /\ Cardinality(WordsOn(i')) >= 2) =>
        motion_mode' = ModeNames[Least(WordsOn(i'))]

\* C39 as a property of every step of the loop.
C39_ModePriority == [][C39_Step]_vars

\* A line was processed on which G00 stands after another mode word, and the
\* mode is G00.
C39_Witness ==
    /\ i >= 1
    /\ Cardinality(WordsOn(i)) >= 2
    /\ 1 \in WordsOn(i)
    /\ \E w \in WordsOn(i) : WordPlace(i, w) < WordPlace(i, 1)
    /\ motion_mode = "G00"

\* C40: a G02/G03 line that gives R0 and has a chord above 0.000001 takes the
\* branch of a radius too small for the chord: it appends a record whose
\* distance is the chord, and its log entry carries the R-error tag.
C40_Step ==
    LET T == TokensUpTo(i')
        chord == EuclidDist(current_pos, current_pos', XYZ)
    IN  (/\ i' = i + 1
         /\ motion_mode' \in {"G02", "G03"}
         /\ HasToken(T[i'], "R")
         /\ ExplicitValue(T, "R", i') = 0
         /\ chord > StationaryEps)
            => /\ Len(detailed_logs') = Len(detailed_logs) + 1
               /\ detailed_logs'[Len(detailed_logs')].line = i'
               /\ detailed_logs'[Len(detailed_logs')].dist = chord
               /\ detailed_logs'[Len(detailed_logs')].info = <<motion_mode', "R_ERROR">>
               /\ Len(log_lines') = Len(log_lines) + 1
               /\ log_lines'[Len(log_lines')].suffix = <<motion_mode', TagRError>>

\* C40 as a property of every step of the loop.
C40_ZeroRadius == [][C40_Step]_vars

\* A record of an arc line with R0: its distance is its chord, 0.000004.
C40_Witness ==
    \E n \in 1..Len(detailed_logs) :
        /\ IsArcRec(WordsUpTo(i), detailed_logs[n])
        /\ HasToken(TokensOn(detailed_logs[n].line), "R")
        /\ ExplicitValue(TokensUpTo(i), "R", detailed_logs[n].line) = 0
        /\ detailed_logs[n].dist = 4
        /\ RecChord(detailed_logs[n]) = 4

\* C38: every cutting record has a distance above 0.000001 and a feed above
\* 0; the records stand in strictly increasing order of line number, so that
\* no line has two, and none is of a line not yet processed; the lists of
\* segment start points and of segment end points are as long as the list of
\* records.
C38_RecordsWellFormed ==
    /\ \A n \in 1..Len(detailed_logs) :
           /\ detailed_logs[n].dist > StationaryEps
           /\ detailed_logs[n].feed > 0
           /\ detailed_logs[n].line \in 1..i
    /\ \A n \in 2..Len(detailed_logs) :
           detailed_logs[n - 1].line < detailed_logs[n].line
    /\ Len(g01_segments_start) = Len(detailed_logs)
    /\ Len(g01_segments_end) = Len(detailed_logs)

\* Two records of a program that never sets a feed, after a line that made
\* none: the records carry the default feed and their lines are 2 and 3.
C38_Witness ==
    /\ Len(detailed_logs) = 2
    /\ detailed_logs[1].line = 2
    /\ detailed_logs[2].line = 3
    /\ detailed_logs[1].feed = UseFeed(0)
    /\ current_feed = 0
    /\ Len(g01_segments_start) = 2

====
